---- MODULE Spec2Model ----
(***************************************************************************)
(* Odyssey real-time dispatch layer.                                       *)
(*                                                                         *)
(* Part I  - telemetry-service: the Hub (registry of websocket clients,    *)
(*           guarded by an RWMutex), Hub.broadcast called from the gRPC    *)
(*           streams (server.ReportTelemetry), the per-connection read     *)
(*           loop (wsHandler), the goroutines broadcast spawns             *)
(*           (go h.removeClient, go func(){ amqpChannel.Publish }).        *)
(* Part II - command-service: the DroneRegistry (directory guarded by a    *)
(*           Mutex), registerHandler and commandHandler.                   *)
(*                                                                         *)
(* Part III - telemetry-service, HTTP-forwarding variant (the second        *)
(*           main.go of the service): telemetryHandler, and a Hub.broadcast *)
(*           that ranges over h.clients itself and forwards with a POST to  *)
(*           the persistence service. addClient, removeClient and wsHandler *)
(*           are the same text as in Part I.                                *)
(*                                                                         *)
(* Part IV - persistence-service: the consumer loop over the deliveries of   *)
(*           persistence_queue and handleTelemetryLog.                      *)
(* Part V  - command-service, missions: handleCreateMission and its         *)
(*           database transaction.                                          *)
(*                                                                         *)
(* The services are separate processes; Spec is the telemetry hub           *)
(* (StreamSpec: the hub with the stream of each sample recorded),           *)
(* RouterSpec the command router, HttpSpec the HTTP-forwarding variant of   *)
(* the hub, ConsumerSpec the persistence consumer and MissionSpec the       *)
(* mission handler.                                                         *)
(***************************************************************************)
EXTENDS Naturals, Sequences, FiniteSets

\* ------------------------------------------------------------------ bounds
\* Websocket connections that are ever upgraded (each a distinct *websocket.Conn).
NumConns == 2
\* gRPC producer streams, each served by its own ReportTelemetry goroutine.
NumProducers == 2
\* Samples received over the whole run (all streams together).
MaxSamples == 2

\* HTTP requests served by registerHandler / by commandHandler over the whole run.
NumRegReqs == 2
NumCmdReqs == 2
\* Messages published to the persistence queue over the whole run.
MaxMessages == 3
\* Mission requests, and the most waypoints one of them carries.
NumMissionReqs == 2
MaxWaypoints == 2

Conns == 1..NumConns
Producers == 1..NumProducers
Seqs == 1..MaxSamples
RegReqs == 1..NumRegReqs
CmdReqs == 1..NumCmdReqs
\* Drone identities and simulator base URLs that requests may name.
Messages == 1..MaxMessages
MissionReqs == 1..NumMissionReqs
WaypointVals == {"wa", "wb"}

DroneIds == {"d1", "d2"}
Addrs == {"http://a:9000", "http://b:9000"}

VARIABLES
  \* ---- telemetry-service
  clients,      \* Hub.clients: the keys of the map (set of connections)
  muW,          \* Hub.mu: the goroutine holding the write lock, or Free
  muR,          \* Hub.mu: the broadcast calls holding the read lock
  transport,    \* per connection: "none" (not upgraded), "open", "dead" (peer gone)
  closeCount,   \* per connection: calls of conn.Close() made by removeClient
  ws,           \* per connection: position of its wsHandler goroutine
  rmPending,    \* per connection: spawned `go h.removeClient(conn)` not yet at Lock
  rmDone,       \* per connection: calls of removeClient(conn) that have returned
  stream,       \* per producer: "open", "eof", "err" (ReportTelemetry returned)
  bc,           \* per producer: position inside ReportTelemetry / hub.broadcast
  msg,          \* per producer: the message of the broadcast call in progress
  snapshot,     \* per producer: clientsSnapshot of the call in progress
  todo,         \* per producer: members of clientsSnapshot the loop has not reached
  cur,          \* per producer: the client whose WriteMessage is in progress
  nextSeq,      \* the number the next sample gets (samples, and so the broadcast
                \* calls, are numbered in the order stream.Recv() returns them)
  received,     \* per connection: the messages its peer has been sent, in order
  att,          \* per producer: WriteMessage calls made on each client by the call in progress
  okw,          \* per producer: clients whose WriteMessage returned nil in the call in progress
  fwdInFlight,  \* forwarding goroutines spawned and not finished
  fwdPublished, \* messages whose Publish returned nil
  fwdFailed,    \* messages whose Publish returned an error (logged)
  skipped,      \* per producer: samples dropped because json.Marshal failed
                \* (HTTP variant: requests answered 400 because Decode failed)
  logPosts,     \* HTTP variant, per message: POST /log goroutines spawned, finished
  origin,       \* per message: the producer whose stream delivered the sample (0: not
                \* recorded; only the steps of StreamSpec record it)
  \* ---- command-service
  drones,       \* registry.drones: map from drone id to base URL
  regMu,        \* registry.mu: the request holding the mutex, or Unlocked
  reg,          \* per register request: position, decoded body, response status
  cmd,          \* per command request: position, decoded body, droneAddr, what Post
                \* returned (remote, rstatus), response (status, body)
  netCalls,     \* per command request: the URLs registry.client.Post was called with
  regHist,      \* per drone id: the addresses stored for it, oldest first
  regSeen,      \* per command request: Len(regHist[target]) when the request arrived
  \* ---- persistence-service
  consumer,     \* the queue, the consumer goroutine and table telemetry (a record,
                \* its fields are named below)
  \* ---- command-service, missions
  mission       \* tables missions and waypoints and the requests (a record, its
                \* fields are named below)

hubVars == <<clients, muW, muR, transport, closeCount, ws, rmPending, rmDone, stream, bc,
             msg, snapshot, todo, cur, nextSeq, received, att, okw,
             fwdInFlight, fwdPublished, fwdFailed, skipped, logPosts, origin>>

routerVars == <<drones, regMu, reg, cmd, netCalls, regHist, regSeen>>

consumerVars == <<consumer>>

missionVars == <<mission>>

vars == <<hubVars, routerVars, consumerVars, missionVars>>

\* ------------------------------------------------------------- Hub, helpers
NoConn == 0
Free == [kind |-> "free", conn |-> NoConn]
Holder(k, c) == [kind |-> k, conn |-> c]

\* sync.RWMutex: Lock() succeeds when nobody holds it, RLock() when no writer does.
CanLock == muW = Free /\ muR = {}
CanRLock == muW = Free

\* A transport accepts writes and reads while the peer is there and the server
\* has not closed it.
Alive(c) == transport[c] = "open" /\ closeCount[c] = 0

NoAttempts == [c \in Conns |-> 0]

Count(s, x) == Cardinality({i \in 1..Len(s) : s[i] = x})

\* --------------------------------------------------- DroneRegistry, helpers
\* make(map[string]string): the map with no key.
EmptyMap == [d \in {} |-> ""]
Unlocked == [kind |-> "none", req |-> 0]
Owner(k, i) == [kind |-> k, req |-> i]

NoId == ""
NoAddr == ""
\* HTTP statuses the handlers answer with (0: no answer yet).
StatusOK == 200
StatusBadRequest == 400
StatusNotFound == 404
StatusInternalServerError == 500

\* ------------------------------------------- persistence consumer, helpers
NoDelivery == [id |-> 0, wellFormed |-> FALSE]

\* persistence_queue and the msgs channel: the deliveries not yet taken.
queue == consumer.queue
\* Messages published to the queue so far.
published == consumer.published
\* The amqp.Delivery the consumer loop is handling, or NoDelivery.
delivery == consumer.delivery
\* Where the consumer goroutine is: "range", "unmarshal", "exec".
consumerPc == consumer.pc
\* What handleTelemetryLog did with each delivery, in the order it ran.
handledLog == consumer.handledLog
\* The rows of table telemetry, in insertion order (message numbers).
telemetryTbl == consumer.telemetryTbl

\* ------------------------------------------------------- missions, helpers
StatusCreated == 201
\* No transaction: nothing begun, or committed, or rolled back.
NoTx == [open |-> FALSE, missions |-> {}, waypoints |-> {}]
NewMissionReq == [pc |-> "new", name |-> "", wps |-> <<>>, mid |-> 0, i |-> 0,
                  tx |-> NoTx, status |-> 0]
\* The waypoint lists a request may carry: every list of at most MaxWaypoints.
WaypointLists == UNION {[1..n -> WaypointVals] : n \in 0..MaxWaypoints}

\* The committed rows of table missions, and of table waypoints.
missionsTbl == mission.missionsTbl
waypointsTbl == mission.waypointsTbl
\* The value the SERIAL column missions.id hands out next.
missionSeq == mission.seq
\* Per mission request: position, decoded body, transaction, response status.
mreq == mission.req

NewReg == [pc |-> "new", id |-> NoId, addr |-> NoAddr, status |-> 0]
\* cmdReq.Payload is a json.RawMessage: nil when the request has no "payload".
NoPayload == "<nil>"
\* Nothing posted yet.
NoBody == [command |-> "", payload |-> ""]

NewCmd == [pc |-> "new", id |-> NoId, addr |-> NoAddr, status |-> 0, body |-> "",
           remote |-> "none", rstatus |-> 0,
           command |-> "", payload |-> NoPayload, sent |-> NoBody]

\* The command and payload a request may carry.
CmdBodies == {[command |-> "PING", payload |-> "{}"],
              [command |-> "LAND", payload |-> NoPayload]}

\* json.Marshal of a json.RawMessage value: the bytes as they are, or null for nil.
MarshalRaw(raw) == IF raw = NoPayload THEN "null" ELSE raw

\* Variant: the whole request, droneId included, is passed on to the drone.
DroneCommandPayload_WithId(c) ==
  [command |-> c.command, payload |-> MarshalRaw(c.payload), droneId |-> c.id]

\* droneCommandPayload, _ := json.Marshal(map[string]interface{}{
\*   "command": cmdReq.Command, "payload": cmdReq.Payload })
DroneCommandPayload(c) ==
  [command |-> c.command, payload |-> MarshalRaw(c.payload)]

\* Variant: a registration replaces the whole map.
Upsert_Replace(m, id, addr) == [d \in {id} |-> addr]

\* What registry.client.Post returns: an error (the drone cannot be reached, or
\* http.Client.Timeout has passed), or the drone's response with its status.
PostErrors == {"error", "timeout"}
RemoteStatuses == {StatusOK, StatusBadRequest, StatusInternalServerError}

\* Variant: the ok result ignored (droneAddr := registry.drones[id], the zero
\* value for a missing key).
Lookup_IgnoreOk(m, id) ==
  IF id \in DOMAIN m THEN [addr |-> m[id], ok |-> TRUE]
                      ELSE [addr |-> NoAddr, ok |-> TRUE]

\* droneAddr, ok := registry.drones[id]
Lookup(m, id) ==
  IF id \in DOMAIN m THEN [addr |-> m[id], ok |-> TRUE]
                      ELSE [addr |-> NoAddr, ok |-> FALSE]

\* Variant: insert only when the id is new (the first registration is kept).
Upsert_KeepFirst(m, id, addr) ==
  [d \in (DOMAIN m) \cup {id} |-> IF d \in DOMAIN m THEN m[d] ELSE addr]

\* registry.drones[id] = addr
Upsert(m, id, addr) ==
  [d \in (DOMAIN m) \cup {id} |-> IF d = id THEN addr ELSE m[d]]

\* droneURL := droneAddr + "/command"
DroneURL(addr) == <<addr, "/command">>

Init ==
  /\ clients = {}
  /\ muW = Free
  /\ muR = {}
  /\ transport = [c \in Conns |-> "none"]
  /\ closeCount = [c \in Conns |-> 0]
  /\ ws = [c \in Conns |-> "init"]
  /\ rmPending = [c \in Conns |-> 0]
  /\ rmDone = [c \in Conns |-> 0]
  /\ stream = [p \in Producers |-> "open"]
  /\ bc = [p \in Producers |-> "idle"]
  /\ msg = [p \in Producers |-> 0]
  /\ snapshot = [p \in Producers |-> {}]
  /\ todo = [p \in Producers |-> {}]
  /\ cur = [p \in Producers |-> NoConn]
  /\ nextSeq = 1
  /\ received = [c \in Conns |-> <<>>]
  /\ att = [p \in Producers |-> NoAttempts]
  /\ okw = [p \in Producers |-> {}]
  /\ fwdInFlight = {}
  /\ fwdPublished = {}
  /\ fwdFailed = {}
  /\ skipped = [p \in Producers |-> 0]
  /\ logPosts = [s \in Seqs |-> [spawned |-> 0, finished |-> 0]]
  /\ origin = [s \in Seqs |-> 0]
  /\ drones = EmptyMap
  /\ regMu = Unlocked
  /\ reg = [r \in RegReqs |-> NewReg]
  /\ cmd = [h \in CmdReqs |-> NewCmd]
  /\ netCalls = [h \in CmdReqs |-> <<>>]
  /\ regHist = [d \in DroneIds |-> <<>>]
  /\ regSeen = [h \in CmdReqs |-> 0]
  /\ consumer = [queue |-> <<>>, published |-> 0, delivery |-> NoDelivery,
                 pc |-> "range", handledLog |-> <<>>, telemetryTbl |-> <<>>]
  /\ mission = [missionsTbl |-> {}, waypointsTbl |-> {}, seq |-> 1,
                req |-> [r \in MissionReqs |-> NewMissionReq]]

\* ---------------------------------------------------------------- wsHandler
\* upgrader.Upgrade succeeds: the connection exists from here on.
wsHandler_Upgrade(c) ==
  /\ ws[c] = "init"
  /\ transport' = [transport EXCEPT ![c] = "open"]
  /\ ws' = [ws EXCEPT ![c] = "add"]
  /\ UNCHANGED <<rmDone, clients, muW, muR, closeCount, rmPending, stream, bc, msg,
                 snapshot, todo, cur, nextSeq, received, att, okw,
                 fwdInFlight, fwdPublished, fwdFailed, skipped, logPosts, origin, routerVars, consumerVars, missionVars>>

\* upgrader.Upgrade fails: the handler returns, no connection is made.
wsHandler_UpgradeFail(c) ==
  /\ ws[c] = "init"
  /\ ws' = [ws EXCEPT ![c] = "exit"]
  /\ UNCHANGED <<rmDone, clients, muW, muR, transport, closeCount, rmPending, stream, bc,
                 msg, snapshot, todo, cur, nextSeq, received, att, okw,
                 fwdInFlight, fwdPublished, fwdFailed, skipped, logPosts, origin, routerVars, consumerVars, missionVars>>

\* addClient: h.mu.Lock()
addClient_Lock(c) ==
  /\ ws[c] = "add"
  /\ CanLock
  /\ muW' = Holder("add", c)
  /\ ws' = [ws EXCEPT ![c] = "adding"]
  /\ UNCHANGED <<rmDone, clients, muR, transport, closeCount, rmPending, stream, bc, msg,
                 snapshot, todo, cur, nextSeq, received, att, okw,
                 fwdInFlight, fwdPublished, fwdFailed, skipped, logPosts, origin, routerVars, consumerVars, missionVars>>

\* addClient: h.clients[conn] = true; deferred h.mu.Unlock()
addClient_Store(c) ==
  /\ ws[c] = "adding"
  /\ muW = Holder("add", c)
  /\ clients' = clients \cup {c}
  /\ muW' = Free
  /\ ws' = [ws EXCEPT ![c] = "read"]
  /\ UNCHANGED <<rmDone, muR, transport, closeCount, rmPending, stream, bc, msg,
                 snapshot, todo, cur, nextSeq, received, att, okw,
                 fwdInFlight, fwdPublished, fwdFailed, skipped, logPosts, origin, routerVars, consumerVars, missionVars>>

\* ------------------------------------------------------------- removeClient
\* removeClient is run by the read loop of the connection (k = "rm_ws") and by
\* the goroutines a failed write spawns (k = "rm_go").
\* The read loop calls it when conn.ReadMessage() returns an error, which it does
\* once the transport is gone (closed by the peer, or by removeClient); until
\* then it keeps reading.
\* Variant: only a failed write leads to removeClient; the read loop does not
\* call it when ReadMessage returns an error.
removeClient_Lock_WriteOnly(k, c) ==
  /\ CanLock
  /\ k = "rm_go" /\ rmPending[c] > 0
  /\ muW' = Holder(k, c)
  /\ rmPending' = [rmPending EXCEPT ![c] = @ - 1]
  /\ UNCHANGED <<rmDone, clients, muR, transport, closeCount, ws, stream, bc, msg,
                 snapshot, todo, cur, nextSeq, received, att, okw,
                 fwdInFlight, fwdPublished, fwdFailed, skipped, logPosts, origin, routerVars, consumerVars, missionVars>>

\* h.mu.Lock()
removeClient_Lock(k, c) ==
  /\ CanLock
  /\ \/ k = "rm_ws" /\ ws[c] = "read" /\ ~Alive(c)
     \/ k = "rm_go" /\ rmPending[c] > 0
  /\ muW' = Holder(k, c)
  /\ ws' = IF k = "rm_ws" THEN [ws EXCEPT ![c] = "removing"] ELSE ws
  /\ rmPending' = IF k = "rm_go" THEN [rmPending EXCEPT ![c] = @ - 1] ELSE rmPending
  /\ UNCHANGED <<rmDone, clients, muR, transport, closeCount, stream, bc, msg,
                 snapshot, todo, cur, nextSeq, received, att, okw,
                 fwdInFlight, fwdPublished, fwdFailed, skipped, logPosts, origin, routerVars, consumerVars, missionVars>>

\* Variant: the presence test left out (Close and delete whatever the map holds).
IsMember_Unchecked(cl, c) == TRUE

\* if _, ok := h.clients[conn]; ok
IsMember(cl, c) == c \in cl

\* Variant: the connection is closed but its key is left in the map.
removeClient_Body_NoDelete(k, c) ==
  /\ muW = Holder(k, c)
  /\ k \in {"rm_ws", "rm_go"}
  /\ IF IsMember(clients, c) /\ closeCount[c] = 0
       THEN closeCount' = [closeCount EXCEPT ![c] = @ + 1]
       ELSE UNCHANGED closeCount
  /\ muW' = Free
  /\ rmDone' = [rmDone EXCEPT ![c] = @ + 1]
  /\ ws' = IF k = "rm_ws" THEN [ws EXCEPT ![c] = "exit"] ELSE ws
  /\ UNCHANGED <<clients, muR, transport, rmPending, stream, bc, msg,
                 snapshot, todo, cur, nextSeq, received, att, okw,
                 fwdInFlight, fwdPublished, fwdFailed, skipped, logPosts, origin, routerVars, consumerVars, missionVars>>

\* Variant: the key is deleted but conn.Close() is not called.
removeClient_Body_NoClose(k, c) ==
  /\ muW = Holder(k, c)
  /\ k \in {"rm_ws", "rm_go"}
  /\ clients' = clients \ {c}
  /\ muW' = Free
  /\ rmDone' = [rmDone EXCEPT ![c] = @ + 1]
  /\ ws' = IF k = "rm_ws" THEN [ws EXCEPT ![c] = "exit"] ELSE ws
  /\ UNCHANGED <<muR, transport, closeCount, rmPending, stream, bc, msg,
                 snapshot, todo, cur, nextSeq, received, att, okw,
                 fwdInFlight, fwdPublished, fwdFailed, skipped, logPosts, origin, routerVars, consumerVars, missionVars>>

\* if _, ok := h.clients[conn]; ok { conn.Close(); delete(h.clients, conn) }
\* then the deferred h.mu.Unlock().
removeClient_Body(k, c) ==
  /\ muW = Holder(k, c)
  /\ k \in {"rm_ws", "rm_go"}
  /\ IF IsMember(clients, c)
       THEN /\ closeCount' = [closeCount EXCEPT ![c] = @ + 1]
            /\ clients' = clients \ {c}
       ELSE UNCHANGED <<closeCount, clients>>
  /\ muW' = Free
  /\ rmDone' = [rmDone EXCEPT ![c] = @ + 1]
  /\ ws' = IF k = "rm_ws" THEN [ws EXCEPT ![c] = "exit"] ELSE ws
  /\ UNCHANGED <<muR, transport, rmPending, stream, bc, msg,
                 snapshot, todo, cur, nextSeq, received, att, okw,
                 fwdInFlight, fwdPublished, fwdFailed, skipped, logPosts, origin, routerVars, consumerVars, missionVars>>

\* ------------------------------------------------------------- environment
\* The peer of a connection goes away (or the network breaks) at any time.
PeerClose(c) ==
  /\ transport[c] = "open"
  /\ transport' = [transport EXCEPT ![c] = "dead"]
  /\ UNCHANGED <<rmDone, clients, muW, muR, closeCount, ws, rmPending, stream, bc, msg,
                 snapshot, todo, cur, nextSeq, received, att, okw,
                 fwdInFlight, fwdPublished, fwdFailed, skipped, logPosts, origin, routerVars, consumerVars, missionVars>>

\* ---------------------------------------------------------- ReportTelemetry
\* stream.Recv() returns a sample; it is marshalled and hub.broadcast is called.
ReportTelemetry_Recv(p) ==
  /\ stream[p] = "open"
  /\ bc[p] = "idle"
  /\ nextSeq <= MaxSamples
  /\ msg' = [msg EXCEPT ![p] = nextSeq]
  /\ nextSeq' = nextSeq + 1
  /\ bc' = [bc EXCEPT ![p] = "rlock"]
  /\ UNCHANGED <<rmDone, clients, muW, muR, transport, closeCount, ws, rmPending, stream,
                 snapshot, todo, cur, received, att, okw,
                 fwdInFlight, fwdPublished, fwdFailed, skipped, logPosts, origin, routerVars, consumerVars, missionVars>>

\* Variant: a sample that cannot be marshalled ends the stream (return err).
ReportTelemetry_MarshalErr_Return(p) ==
  /\ stream[p] = "open"
  /\ bc[p] = "idle"
  /\ nextSeq <= MaxSamples
  /\ nextSeq' = nextSeq + 1
  /\ skipped' = [skipped EXCEPT ![p] = @ + 1]
  /\ stream' = [stream EXCEPT ![p] = "err"]
  /\ UNCHANGED <<rmDone, clients, muW, muR, transport, closeCount, ws, rmPending, bc,
                 msg, snapshot, todo, cur, received, att, okw,
                 fwdInFlight, fwdPublished, fwdFailed, logPosts, origin, routerVars, consumerVars, missionVars>>

\* stream.Recv() returns a sample for which json.Marshal fails (a NaN or infinite
\* float64 field): the error is logged and the loop continues with the next Recv.
ReportTelemetry_MarshalErr(p) ==
  /\ stream[p] = "open"
  /\ bc[p] = "idle"
  /\ nextSeq <= MaxSamples
  /\ nextSeq' = nextSeq + 1
  /\ skipped' = [skipped EXCEPT ![p] = @ + 1]
  /\ UNCHANGED <<rmDone, clients, muW, muR, transport, closeCount, ws, rmPending, stream,
                 bc, msg, snapshot, todo, cur, received, att, okw,
                 fwdInFlight, fwdPublished, fwdFailed, logPosts, origin, routerVars, consumerVars, missionVars>>

\* stream.Recv() returns io.EOF (SendAndClose, return) or another error (return err).
ReportTelemetry_End(p) ==
  /\ stream[p] = "open"
  /\ bc[p] = "idle"
  /\ \E r \in {"eof", "err"} : stream' = [stream EXCEPT ![p] = r]
  /\ UNCHANGED <<rmDone, clients, muW, muR, transport, closeCount, ws, rmPending, bc, msg,
                 snapshot, todo, cur, nextSeq, received, att, okw,
                 fwdInFlight, fwdPublished, fwdFailed, skipped, logPosts, origin, routerVars, consumerVars, missionVars>>

\* ---------------------------------------------------------------- broadcast
\* h.mu.RLock()
broadcast_RLock(p) ==
  /\ bc[p] = "rlock"
  /\ CanRLock
  /\ muR' = muR \cup {p}
  /\ bc' = [bc EXCEPT ![p] = "snap"]
  /\ UNCHANGED <<rmDone, clients, muW, transport, closeCount, ws, rmPending, stream, msg,
                 snapshot, todo, cur, nextSeq, received, att, okw,
                 fwdInFlight, fwdPublished, fwdFailed, skipped, logPosts, origin, routerVars, consumerVars, missionVars>>

\* clientsSnapshot: a copy of the keys of h.clients (in map order, which is any order).
SnapshotOf(cl) == cl

\* Variant: the loop misses one member of a snapshot of two or more.
LoopMembers_SkipOne(snap) ==
  IF Cardinality(snap) > 1 THEN snap \ {CHOOSE c \in snap : TRUE} ELSE snap

\* for _, client := range clientsSnapshot: the members the loop visits.
LoopMembers(snap) == snap

\* Variant: the read lock is not released after the copy.
broadcast_Snapshot_NoRUnlock(p) ==
  /\ bc[p] = "snap"
  /\ p \in muR
  /\ snapshot' = [snapshot EXCEPT ![p] = SnapshotOf(clients)]
  /\ todo' = [todo EXCEPT ![p] = LoopMembers(SnapshotOf(clients))]
  /\ bc' = [bc EXCEPT ![p] = "loop"]
  /\ UNCHANGED <<rmDone, clients, muW, muR, transport, closeCount, ws, rmPending, stream,
                 msg, cur, nextSeq, received, att, okw,
                 fwdInFlight, fwdPublished, fwdFailed, skipped, logPosts, origin, routerVars, consumerVars, missionVars>>

\* for client := range h.clients { append }; h.mu.RUnlock()
broadcast_Snapshot(p) ==
  /\ bc[p] = "snap"
  /\ p \in muR
  /\ snapshot' = [snapshot EXCEPT ![p] = SnapshotOf(clients)]
  /\ todo' = [todo EXCEPT ![p] = LoopMembers(SnapshotOf(clients))]
  /\ muR' = muR \ {p}
  /\ bc' = [bc EXCEPT ![p] = "loop"]
  /\ UNCHANGED <<rmDone, clients, muW, transport, closeCount, ws, rmPending, stream, msg,
                 cur, nextSeq, received, att, okw,
                 fwdInFlight, fwdPublished, fwdFailed, skipped, logPosts, origin, routerVars, consumerVars, missionVars>>

\* Variant: the loop ranges over the registry as it is now, not over the copy.
broadcast_WriteBegin_Live(p, c) ==
  /\ bc[p] = "loop"
  /\ c \in todo[p] \/ (c \in clients /\ att[p][c] = 0)
  /\ cur' = [cur EXCEPT ![p] = c]
  /\ bc' = [bc EXCEPT ![p] = "writing"]
  /\ att' = [att EXCEPT ![p][c] = @ + 1]
  /\ UNCHANGED <<rmDone, clients, muW, muR, transport, closeCount, ws, rmPending, stream,
                 msg, snapshot, todo, nextSeq, received, okw,
                 fwdInFlight, fwdPublished, fwdFailed, skipped, logPosts, origin, routerVars, consumerVars, missionVars>>

\* Variant: the loop looks a member of the copy up in the registry first and
\* passes over it, without a write, when it is no longer there.
broadcast_WriteBegin_MembersOnly(p, c) ==
  /\ bc[p] = "loop"
  /\ c \in todo[p]
  /\ IF c \in clients
       THEN /\ cur' = [cur EXCEPT ![p] = c]
            /\ bc' = [bc EXCEPT ![p] = "writing"]
            /\ att' = [att EXCEPT ![p][c] = @ + 1]
            /\ UNCHANGED todo
       ELSE /\ todo' = [todo EXCEPT ![p] = @ \ {c}]
            /\ UNCHANGED <<cur, bc, att>>
  /\ UNCHANGED <<rmDone, clients, muW, muR, transport, closeCount, ws, rmPending, stream,
                 msg, snapshot, nextSeq, received, okw,
                 fwdInFlight, fwdPublished, fwdFailed, skipped, logPosts, origin, routerVars, consumerVars, missionVars>>

\* The loop over clientsSnapshot reaches its next member and calls
\* client.WriteMessage(websocket.TextMessage, message).  Nothing in the hub
\* keeps two calls from being inside WriteMessage on one connection (see C4);
\* what the websocket library does with overlapping writers is outside this
\* repository, and each write is taken here to run to its own return.
broadcast_WriteBegin(p, c) ==
  /\ bc[p] = "loop"
  /\ c \in todo[p]
  /\ cur' = [cur EXCEPT ![p] = c]
  /\ bc' = [bc EXCEPT ![p] = "writing"]
  /\ att' = [att EXCEPT ![p][c] = @ + 1]
  /\ UNCHANGED <<rmDone, clients, muW, muR, transport, closeCount, ws, rmPending, stream,
                 msg, snapshot, todo, nextSeq, received, okw,
                 fwdInFlight, fwdPublished, fwdFailed, skipped, logPosts, origin, routerVars, consumerVars, missionVars>>

\* Variant: a member whose write failed stays in the loop and is written to again.
RestAfter_RetryOnError(t, c, ok) == IF ok THEN t \ {c} ELSE t

\* Variant: the loop stops at the first write error.
RestAfter_BreakOnError(t, c, ok) == IF ok THEN t \ {c} ELSE {}

\* What is left of the loop after the write to c returned.
RestAfter(t, c, ok) == t \ {c}

\* Variant: removeClient is spawned after every write, failed or not.
broadcast_WriteEnd_AlwaysPrune(p) ==
  /\ bc[p] = "writing"
  /\ LET c == cur[p]
         ok == Alive(c)
     IN /\ received' = IF ok THEN [received EXCEPT ![c] = Append(@, msg[p])]
                             ELSE received
        /\ rmPending' = [rmPending EXCEPT ![c] = @ + 1]
        /\ okw' = IF ok THEN [okw EXCEPT ![p] = @ \cup {c}] ELSE okw
        /\ todo' = [todo EXCEPT ![p] = RestAfter(@, c, ok)]
  /\ cur' = [cur EXCEPT ![p] = NoConn]
  /\ bc' = [bc EXCEPT ![p] = "loop"]
  /\ UNCHANGED <<rmDone, clients, muW, muR, transport, closeCount, ws, stream,
                 msg, snapshot, nextSeq, att,
                 fwdInFlight, fwdPublished, fwdFailed, skipped, logPosts, origin, routerVars, consumerVars, missionVars>>

\* WriteMessage returns: nil and the peer has the message, or an error, in which
\* case `go h.removeClient(client)` is spawned. The loop goes on either way.
broadcast_WriteEnd(p) ==
  /\ bc[p] = "writing"
  /\ LET c == cur[p]
         ok == Alive(c)
     IN /\ received' = IF ok THEN [received EXCEPT ![c] = Append(@, msg[p])]
                             ELSE received
        /\ rmPending' = IF ok THEN rmPending
                              ELSE [rmPending EXCEPT ![c] = @ + 1]
        /\ okw' = IF ok THEN [okw EXCEPT ![p] = @ \cup {c}] ELSE okw
        /\ todo' = [todo EXCEPT ![p] = RestAfter(@, c, ok)]
  /\ cur' = [cur EXCEPT ![p] = NoConn]
  /\ bc' = [bc EXCEPT ![p] = "loop"]
  /\ UNCHANGED <<rmDone, clients, muW, muR, transport, closeCount, ws, stream,
                 msg, snapshot, nextSeq, att,
                 fwdInFlight, fwdPublished, fwdFailed, skipped, logPosts, origin, routerVars, consumerVars, missionVars>>

\* Variant: broadcast reports a failed write to its caller, which ends the stream
\* with that error.
broadcast_Forward_ReturnErr(p) ==
  /\ bc[p] = "loop"
  /\ todo[p] = {}
  /\ fwdInFlight' = fwdInFlight \cup {msg[p]}
  /\ bc' = [bc EXCEPT ![p] = "idle"]
  /\ stream' = IF okw[p] # snapshot[p] THEN [stream EXCEPT ![p] = "err"] ELSE stream
  /\ msg' = [msg EXCEPT ![p] = 0]
  /\ snapshot' = [snapshot EXCEPT ![p] = {}]
  /\ att' = [att EXCEPT ![p] = NoAttempts]
  /\ okw' = [okw EXCEPT ![p] = {}]
  /\ UNCHANGED <<rmDone, clients, muW, muR, transport, closeCount, ws, rmPending,
                 todo, cur, nextSeq, received,
                 fwdPublished, fwdFailed, skipped, logPosts, origin, routerVars, consumerVars, missionVars>>

\* Variant: the body that is published is not the message that was broadcast.
broadcast_Forward_OtherPayload(p) ==
  /\ bc[p] = "loop"
  /\ todo[p] = {}
  /\ fwdInFlight' = fwdInFlight \cup {(msg[p] % MaxSamples) + 1}
  /\ bc' = [bc EXCEPT ![p] = "idle"]
  /\ msg' = [msg EXCEPT ![p] = 0]
  /\ snapshot' = [snapshot EXCEPT ![p] = {}]
  /\ att' = [att EXCEPT ![p] = NoAttempts]
  /\ okw' = [okw EXCEPT ![p] = {}]
  /\ UNCHANGED <<rmDone, clients, muW, muR, transport, closeCount, ws, rmPending, stream,
                 todo, cur, nextSeq, received,
                 fwdPublished, fwdFailed, skipped, logPosts, origin, routerVars, consumerVars, missionVars>>

\* Variant: Publish is called in the broadcast call itself, which stays in the
\* call until the publish has finished.
broadcast_Forward_Sync(p) ==
  /\ bc[p] = "loop"
  /\ todo[p] = {}
  /\ fwdInFlight' = fwdInFlight \cup {msg[p]}
  /\ bc' = [bc EXCEPT ![p] = "publishing"]
  /\ UNCHANGED <<rmDone, clients, muW, muR, transport, closeCount, ws, rmPending, stream,
                 msg, snapshot, att, okw, todo, cur, nextSeq, received,
                 fwdPublished, fwdFailed, skipped, logPosts, origin, routerVars, consumerVars, missionVars>>

\* The loop is over: `go func() { amqpChannel.Publish(...) }()` is spawned and
\* broadcast returns to ReportTelemetry, which goes back to stream.Recv().
broadcast_Forward(p) ==
  /\ bc[p] = "loop"
  /\ todo[p] = {}
  /\ fwdInFlight' = fwdInFlight \cup {msg[p]}
  /\ bc' = [bc EXCEPT ![p] = "idle"]
  /\ msg' = [msg EXCEPT ![p] = 0]
  /\ snapshot' = [snapshot EXCEPT ![p] = {}]
  /\ att' = [att EXCEPT ![p] = NoAttempts]
  /\ okw' = [okw EXCEPT ![p] = {}]
  /\ UNCHANGED <<rmDone, clients, muW, muR, transport, closeCount, ws, rmPending, stream,
                 todo, cur, nextSeq, received,
                 fwdPublished, fwdFailed, skipped, logPosts, origin, routerVars, consumerVars, missionVars>>

\* Variant: a publish error is fatal (log.Fatalf), the process exits and every
\* socket it holds goes down.
forward_Publish_Fatal(s) ==
  /\ s \in fwdInFlight
  /\ fwdInFlight' = fwdInFlight \ {s}
  /\ \E err \in BOOLEAN :
       IF err THEN /\ fwdFailed' = fwdFailed \cup {s}
                   /\ transport' = [c \in Conns |-> "dead"]
                   /\ UNCHANGED fwdPublished
              ELSE /\ fwdPublished' = fwdPublished \cup {s}
                   /\ UNCHANGED <<fwdFailed, transport>>
  /\ UNCHANGED <<rmDone, clients, muW, muR, closeCount, ws, rmPending, stream,
                 bc, msg, snapshot, todo, cur, nextSeq, received, att, okw, skipped, logPosts, origin, routerVars, consumerVars, missionVars>>

\* The forwarding goroutine: Publish returns nil, or an error that is logged.
forward_Publish(s) ==
  /\ s \in fwdInFlight
  /\ fwdInFlight' = fwdInFlight \ {s}
  /\ \E err \in BOOLEAN :
       IF err THEN /\ fwdFailed' = fwdFailed \cup {s}
                   /\ UNCHANGED fwdPublished
              ELSE /\ fwdPublished' = fwdPublished \cup {s}
                   /\ UNCHANGED fwdFailed
  /\ UNCHANGED <<rmDone, clients, muW, muR, transport, closeCount, ws, rmPending, stream,
                 bc, msg, snapshot, todo, cur, nextSeq, received, att, okw, skipped, logPosts, origin, routerVars, consumerVars, missionVars>>

\* --------------------------------------------------------------------- Spec
Next ==
  \/ \E c \in Conns : wsHandler_Upgrade(c)
  \/ \E c \in Conns : wsHandler_UpgradeFail(c)
  \/ \E c \in Conns : addClient_Lock(c)
  \/ \E c \in Conns : addClient_Store(c)
  \/ \E c \in Conns, k \in {"rm_ws", "rm_go"} : removeClient_Lock(k, c)
  \/ \E c \in Conns, k \in {"rm_ws", "rm_go"} : removeClient_Body(k, c)
  \/ \E c \in Conns : PeerClose(c)
  \/ \E p \in Producers : ReportTelemetry_Recv(p)
  \/ \E p \in Producers : ReportTelemetry_MarshalErr(p)
  \/ \E p \in Producers : ReportTelemetry_End(p)
  \/ \E p \in Producers : broadcast_RLock(p)
  \/ \E p \in Producers : broadcast_Snapshot(p)
  \/ \E p \in Producers, c \in Conns : broadcast_WriteBegin(p, c)
  \/ \E p \in Producers : broadcast_WriteEnd(p)
  \/ \E p \in Producers : broadcast_Forward(p)
  \/ \E s \in Seqs : forward_Publish(s)

Spec == Init /\ [][Next]_vars

\* The Go scheduler runs every runnable goroutine, and a goroutine blocked in
\* Lock() gets the mutex once its holders have released it: whoever holds Hub.mu
\* releases it, and a removeClient, spawned by a failed write or called by a read
\* loop whose ReadMessage returned an error, acquires it (a waiting Lock() keeps
\* later RLock() callers out, so readers cannot starve it).
Fairness ==
  /\ \A c \in Conns : WF_vars(addClient_Store(c))
  /\ \A p \in Producers : WF_vars(broadcast_Snapshot(p))
  /\ \A c \in Conns, k \in {"rm_ws", "rm_go"} : WF_vars(removeClient_Lock(k, c))
  /\ \A c \in Conns, k \in {"rm_ws", "rm_go"} : WF_vars(removeClient_Body(k, c))

FairSpec == Spec /\ Fairness

\* Fairness, and moreover: a goroutine waiting in Lock() or RLock() gets the lock
\* once it is free, the loop of a broadcast call goes on, and every
\* client.WriteMessage returns.
ProgressFairness ==
  /\ Fairness
  /\ \A c \in Conns : WF_vars(addClient_Lock(c))
  /\ \A p \in Producers : WF_vars(broadcast_RLock(p))
  /\ \A p \in Producers, c \in Conns : WF_vars(broadcast_WriteBegin(p, c))
  /\ \A p \in Producers : WF_vars(broadcast_WriteEnd(p))
  /\ \A p \in Producers : WF_vars(broadcast_Forward(p))

ProgressSpec == Spec /\ ProgressFairness

\* ------------------------------------------- the hub, streams told apart
\* Variant: `go hub.broadcast(messageBytes)`: the call runs in a goroutine of its
\* own (the position q) and the stream of p goes on to its next Recv.
ReportTelemetry_RecvFrom_Spawn(p) ==
  /\ stream[p] = "open"
  /\ nextSeq <= MaxSamples
  /\ \E q \in Producers :
       /\ bc[q] = "idle"
       /\ msg' = [msg EXCEPT ![q] = nextSeq]
       /\ bc' = [bc EXCEPT ![q] = "rlock"]
  /\ origin' = [origin EXCEPT ![nextSeq] = p]
  /\ nextSeq' = nextSeq + 1
  /\ UNCHANGED <<rmDone, clients, muW, muR, transport, closeCount, ws, rmPending, stream,
                 snapshot, todo, cur, received, att, okw,
                 fwdInFlight, fwdPublished, fwdFailed, skipped, logPosts, routerVars,
                 consumerVars, missionVars>>

\* ReportTelemetry_Recv, with the stream the sample came in on recorded:
\* stream.Recv() of p's stream returns a sample, it is marshalled and
\* hub.broadcast is called in the loop of the stream itself.
ReportTelemetry_RecvFrom(p) ==
  /\ stream[p] = "open"
  /\ bc[p] = "idle"
  /\ nextSeq <= MaxSamples
  /\ msg' = [msg EXCEPT ![p] = nextSeq]
  /\ origin' = [origin EXCEPT ![nextSeq] = p]
  /\ nextSeq' = nextSeq + 1
  /\ bc' = [bc EXCEPT ![p] = "rlock"]
  /\ UNCHANGED <<rmDone, clients, muW, muR, transport, closeCount, ws, rmPending, stream,
                 snapshot, todo, cur, received, att, okw,
                 fwdInFlight, fwdPublished, fwdFailed, skipped, logPosts, routerVars,
                 consumerVars, missionVars>>

StreamNext ==
  \/ \E c \in Conns : wsHandler_Upgrade(c)
  \/ \E c \in Conns : wsHandler_UpgradeFail(c)
  \/ \E c \in Conns : addClient_Lock(c)
  \/ \E c \in Conns : addClient_Store(c)
  \/ \E c \in Conns, k \in {"rm_ws", "rm_go"} : removeClient_Lock(k, c)
  \/ \E c \in Conns, k \in {"rm_ws", "rm_go"} : removeClient_Body(k, c)
  \/ \E c \in Conns : PeerClose(c)
  \/ \E p \in Producers : ReportTelemetry_RecvFrom(p)
  \/ \E p \in Producers : ReportTelemetry_MarshalErr(p)
  \/ \E p \in Producers : ReportTelemetry_End(p)
  \/ \E p \in Producers : broadcast_RLock(p)
  \/ \E p \in Producers : broadcast_Snapshot(p)
  \/ \E p \in Producers, c \in Conns : broadcast_WriteBegin(p, c)
  \/ \E p \in Producers : broadcast_WriteEnd(p)
  \/ \E p \in Producers : broadcast_Forward(p)
  \/ \E s \in Seqs : forward_Publish(s)

StreamSpec == Init /\ [][StreamNext]_vars

\* ------------------------------------------------------------ registerHandler
\* json.NewDecoder(r.Body).Decode(&req): an error answers 400 and returns.
registerHandler_Decode(r) ==
  /\ reg[r].pc = "new"
  /\ \/ reg' = [reg EXCEPT ![r] = [@ EXCEPT !.pc = "done", !.status = StatusBadRequest]]
     \/ \E d \in DroneIds, a \in Addrs :
          reg' = [reg EXCEPT ![r] = [@ EXCEPT !.pc = "lock", !.id = d, !.addr = a]]
  /\ UNCHANGED <<hubVars, consumerVars, missionVars, drones, regMu, cmd, netCalls, regHist, regSeen>>

\* registry.mu.Lock()
registerHandler_Lock(r) ==
  /\ reg[r].pc = "lock"
  /\ regMu = Unlocked
  /\ regMu' = Owner("reg", r)
  /\ reg' = [reg EXCEPT ![r].pc = "store"]
  /\ UNCHANGED <<hubVars, consumerVars, missionVars, drones, cmd, netCalls, regHist, regSeen>>

\* registry.drones[req.DroneID] = req.Address; registry.mu.Unlock();
\* w.WriteHeader(http.StatusOK)
registerHandler_Store(r) ==
  /\ reg[r].pc = "store"
  /\ regMu = Owner("reg", r)
  /\ drones' = Upsert(drones, reg[r].id, reg[r].addr)
  /\ regHist' = [regHist EXCEPT ![reg[r].id] = Append(@, reg[r].addr)]
  /\ regMu' = Unlocked
  /\ reg' = [reg EXCEPT ![r] = [@ EXCEPT !.pc = "done", !.status = StatusOK]]
  /\ UNCHANGED <<hubVars, consumerVars, missionVars, cmd, netCalls, regSeen>>

\* ------------------------------------------------------------- commandHandler
\* Variant: a Decode error answers 400 and the handler goes on with the
\* zero-valued request (no return after http.Error).
commandHandler_Decode_NoReturn(h) ==
  /\ cmd[h].pc = "new"
  /\ \/ /\ cmd' = [cmd EXCEPT ![h] = [@ EXCEPT !.pc = "lock",
                                              !.status = StatusBadRequest,
                                              !.body = "Invalid request body"]]
        /\ UNCHANGED regSeen
     \/ \E d \in DroneIds, b \in CmdBodies :
          /\ cmd' = [cmd EXCEPT ![h] = [@ EXCEPT !.pc = "lock", !.id = d,
                                                 !.command = b.command,
                                                 !.payload = b.payload]]
          /\ regSeen' = [regSeen EXCEPT ![h] = Len(regHist[d])]
  /\ UNCHANGED <<hubVars, consumerVars, missionVars, drones, regMu, reg, netCalls, regHist>>

\* json.NewDecoder(r.Body).Decode(&cmdReq): an error answers 400 and returns.
commandHandler_Decode(h) ==
  /\ cmd[h].pc = "new"
  /\ \/ /\ cmd' = [cmd EXCEPT ![h] = [@ EXCEPT !.pc = "done",
                                              !.status = StatusBadRequest,
                                              !.body = "Invalid request body"]]
        /\ UNCHANGED regSeen
     \/ \E d \in DroneIds, b \in CmdBodies :
          /\ cmd' = [cmd EXCEPT ![h] = [@ EXCEPT !.pc = "lock", !.id = d,
                                                 !.command = b.command,
                                                 !.payload = b.payload]]
          /\ regSeen' = [regSeen EXCEPT ![h] = Len(regHist[d])]
  /\ UNCHANGED <<hubVars, consumerVars, missionVars, drones, regMu, reg, netCalls, regHist>>

\* registry.mu.Lock()
commandHandler_Lock(h) ==
  /\ cmd[h].pc = "lock"
  /\ regMu = Unlocked
  /\ regMu' = Owner("cmd", h)
  /\ cmd' = [cmd EXCEPT ![h].pc = "lookup"]
  /\ UNCHANGED <<hubVars, consumerVars, missionVars, drones, reg, netCalls, regHist, regSeen>>

\* droneAddr, ok := registry.drones[cmdReq.DroneID]; registry.mu.Unlock();
\* if !ok { http.Error(w, "Drone not registered", http.StatusNotFound); return }
commandHandler_Lookup(h) ==
  /\ cmd[h].pc = "lookup"
  /\ regMu = Owner("cmd", h)
  /\ regMu' = Unlocked
  /\ LET l == Lookup(drones, cmd[h].id)
     IN cmd' = IF l.ok
                 THEN [cmd EXCEPT ![h] = [@ EXCEPT !.pc = "post", !.addr = l.addr]]
                 ELSE [cmd EXCEPT ![h] = [@ EXCEPT !.pc = "done",
                                                   !.status = StatusNotFound,
                                                   !.body = "Drone not registered"]]
  /\ UNCHANGED <<hubVars, consumerVars, missionVars, drones, reg, netCalls, regHist, regSeen>>

\* Variant: the address is read from registry.drones again, without the lock,
\* when the URL is built.
commandHandler_Post_Relookup(h) ==
  /\ cmd[h].pc = "post"
  /\ netCalls' = [netCalls EXCEPT ![h] = Append(@, DroneURL(drones[cmd[h].id]))]
  /\ cmd' = [cmd EXCEPT ![h] = [@ EXCEPT !.pc = "wait",
                                         !.sent = DroneCommandPayload(cmd[h])]]
  /\ UNCHANGED <<hubVars, consumerVars, missionVars, drones, regMu, reg, regHist, regSeen>>

\* droneCommandPayload is marshalled and
\* registry.client.Post(droneURL, "application/json", ...) sends it.
commandHandler_Post(h) ==
  /\ cmd[h].pc = "post"
  /\ netCalls' = [netCalls EXCEPT ![h] = Append(@, DroneURL(cmd[h].addr))]
  /\ cmd' = [cmd EXCEPT ![h] = [@ EXCEPT !.pc = "wait",
                                         !.sent = DroneCommandPayload(cmd[h])]]
  /\ UNCHANGED <<hubVars, consumerVars, missionVars, drones, regMu, reg, regHist, regSeen>>

\* Variant: a failed Post answers 404, as an unknown drone does.
commandHandler_Reply_NotFoundOnError(h) ==
  /\ cmd[h].pc = "wait"
  /\ \/ \E e \in PostErrors :
          cmd' = [cmd EXCEPT ![h] = [@ EXCEPT !.pc = "done", !.remote = e,
                                              !.status = StatusNotFound,
                                              !.body = "Drone not registered"]]
     \/ \E rs \in RemoteStatuses :
          cmd' = [cmd EXCEPT ![h] = [@ EXCEPT !.pc = "done", !.remote = "resp",
                                              !.rstatus = rs,
                                              !.status = StatusOK,
                                              !.body = "Command sent to drone"]]
  /\ UNCHANGED <<hubVars, consumerVars, missionVars, drones, regMu, reg, netCalls, regHist, regSeen>>

\* Variant: a failed Post is tried once more before the handler gives up.
commandHandler_Reply_Retry(h) ==
  /\ cmd[h].pc = "wait"
  /\ \/ \E e \in PostErrors :
          cmd' = IF Len(netCalls[h]) < 2
                   THEN [cmd EXCEPT ![h].pc = "post"]
                   ELSE [cmd EXCEPT ![h] = [@ EXCEPT !.pc = "done", !.remote = e,
                                                     !.status = StatusInternalServerError,
                                                     !.body = "Failed to forward command to drone"]]
     \/ \E rs \in RemoteStatuses :
          cmd' = [cmd EXCEPT ![h] = [@ EXCEPT !.pc = "done", !.remote = "resp",
                                              !.rstatus = rs,
                                              !.status = StatusOK,
                                              !.body = "Command sent to drone"]]
  /\ UNCHANGED <<hubVars, consumerVars, missionVars, drones, regMu, reg, netCalls, regHist, regSeen>>

\* Variant: a drone whose Post failed is dropped from the registry.
commandHandler_Reply_EvictOnError(h) ==
  /\ cmd[h].pc = "wait"
  /\ \/ /\ \E e \in PostErrors :
             cmd' = [cmd EXCEPT ![h] = [@ EXCEPT !.pc = "done", !.remote = e,
                                                 !.status = StatusInternalServerError,
                                                 !.body = "Failed to forward command to drone"]]
        /\ drones' = [d \in (DOMAIN drones) \ {cmd[h].id} |-> drones[d]]
     \/ /\ \E rs \in RemoteStatuses :
             cmd' = [cmd EXCEPT ![h] = [@ EXCEPT !.pc = "done", !.remote = "resp",
                                                 !.rstatus = rs,
                                                 !.status = StatusOK,
                                                 !.body = "Command sent to drone"]]
        /\ UNCHANGED drones
  /\ UNCHANGED <<hubVars, consumerVars, missionVars, regMu, reg, netCalls, regHist, regSeen>>

\* Post returns. An error answers 500 "Failed to forward command to drone"; a
\* response answers 200 {status: "Command sent to drone"} whatever its status
\* (resp is only closed, resp.StatusCode is not read).
commandHandler_Reply(h) ==
  /\ cmd[h].pc = "wait"
  /\ \/ \E e \in PostErrors :
          cmd' = [cmd EXCEPT ![h] = [@ EXCEPT !.pc = "done", !.remote = e,
                                              !.status = StatusInternalServerError,
                                              !.body = "Failed to forward command to drone"]]
     \/ \E rs \in RemoteStatuses :
          cmd' = [cmd EXCEPT ![h] = [@ EXCEPT !.pc = "done", !.remote = "resp",
                                              !.rstatus = rs,
                                              !.status = StatusOK,
                                              !.body = "Command sent to drone"]]
  /\ UNCHANGED <<hubVars, consumerVars, missionVars, drones, regMu, reg, netCalls, regHist, regSeen>>

RouterNext ==
  \/ \E r \in RegReqs : registerHandler_Decode(r)
  \/ \E r \in RegReqs : registerHandler_Lock(r)
  \/ \E r \in RegReqs : registerHandler_Store(r)
  \/ \E h \in CmdReqs : commandHandler_Decode(h)
  \/ \E h \in CmdReqs : commandHandler_Lock(h)
  \/ \E h \in CmdReqs : commandHandler_Lookup(h)
  \/ \E h \in CmdReqs : commandHandler_Post(h)
  \/ \E h \in CmdReqs : commandHandler_Reply(h)

RouterSpec == Init /\ [][RouterNext]_vars

\* ============================================ Hub, HTTP-forwarding variant
\* In this variant a producer is an HTTP client posting samples to /telemetry,
\* bc[p] is the position of its telemetryHandler, muR holds the broadcast calls
\* (named by their message) whose RLock() has not been undone by an RUnlock(),
\* and snapshot[p] is the key set of h.clients when the range loop began.

\* A fatal error of the Go runtime has ended the process.
Running == \A p \in Producers : bc[p] # "fatal"

\* Variant: the error is written and the handler goes on (no return after
\* http.Error): the zero-valued sample is broadcast.
telemetryHandler_Decode_NoReturn(p) ==
  /\ stream[p] = "open"
  /\ bc[p] = "idle"
  /\ nextSeq <= MaxSamples
  /\ nextSeq' = nextSeq + 1
  /\ \/ skipped' = [skipped EXCEPT ![p] = @ + 1]
     \/ UNCHANGED skipped
  /\ msg' = [msg EXCEPT ![p] = nextSeq]
  /\ bc' = [bc EXCEPT ![p] = "h_rlock"]
  /\ UNCHANGED <<rmDone, clients, muW, muR, transport, closeCount, ws, rmPending, stream,
                 snapshot, todo, cur, received, att, okw,
                 fwdInFlight, fwdPublished, fwdFailed, logPosts, origin, routerVars, consumerVars, missionVars>>

\* A request is rejected (r.Method is not POST: 405; or
\* json.NewDecoder(r.Body).Decode(&telemetry) fails: 400) and the handler
\* returns, the client's next request is served as any other; otherwise the
\* sample is marshalled again and hub.broadcast(message) is called.
\* (json.Marshal of a struct that was just decoded from JSON does not fail.)
telemetryHandler_Decode(p) ==
  /\ stream[p] = "open"
  /\ bc[p] = "idle"
  /\ nextSeq <= MaxSamples
  /\ nextSeq' = nextSeq + 1
  /\ \/ /\ skipped' = [skipped EXCEPT ![p] = @ + 1]
        /\ UNCHANGED <<msg, bc>>
     \/ /\ msg' = [msg EXCEPT ![p] = nextSeq]
        /\ bc' = [bc EXCEPT ![p] = "h_rlock"]
        /\ UNCHANGED skipped
  /\ UNCHANGED <<rmDone, clients, muW, muR, transport, closeCount, ws, rmPending, stream,
                 snapshot, todo, cur, received, att, okw,
                 fwdInFlight, fwdPublished, fwdFailed, logPosts, origin, routerVars, consumerVars, missionVars>>

\* h.mu.RLock(); the range over h.clients begins.
broadcastHttp_RLock(p) ==
  /\ bc[p] = "h_rlock"
  /\ CanRLock
  /\ muR' = muR \cup {msg[p]}
  /\ snapshot' = [snapshot EXCEPT ![p] = clients]
  /\ bc' = [bc EXCEPT ![p] = "h_range"]
  /\ UNCHANGED <<rmDone, clients, muW, transport, closeCount, ws, rmPending, stream, msg,
                 todo, cur, nextSeq, received, att, okw,
                 fwdInFlight, fwdPublished, fwdFailed, skipped, logPosts, origin, routerVars, consumerVars, missionVars>>

\* for client := range h.clients: the range yields a key that is in the map now
\* and was not yielded before, and client.WriteMessage is called on it.
broadcastHttp_Next(p, c) ==
  /\ bc[p] = "h_range"
  /\ c \in clients
  /\ att[p][c] = 0
  /\ cur' = [cur EXCEPT ![p] = c]
  /\ att' = [att EXCEPT ![p][c] = @ + 1]
  /\ bc' = [bc EXCEPT ![p] = "h_writing"]
  /\ UNCHANGED <<rmDone, clients, muW, muR, transport, closeCount, ws, rmPending, stream,
                 msg, snapshot, todo, nextSeq, received, okw,
                 fwdInFlight, fwdPublished, fwdFailed, skipped, logPosts, origin, routerVars, consumerVars, missionVars>>

\* sync.RWMutex.RUnlock(): the reader count goes down by one, whoever's RLock()
\* put it up; with a count of zero the runtime ends the process
\* ("fatal error: sync: RUnlock of unlocked RWMutex").
RUnlockResults(call) ==
  IF call \in muR THEN {[fatal |-> FALSE, readers |-> muR \ {call}]}
  ELSE IF muR # {} THEN {[fatal |-> FALSE, readers |-> muR \ {t}] : t \in muR}
  ELSE {[fatal |-> TRUE, readers |-> muR]}

\* The body of the loop after WriteMessage returned: on an error
\* `go h.removeClient(client)`; then h.mu.RUnlock(), in every iteration; then
\* `go func() { httpClient.Do(POST /log) }()`, in every iteration.
broadcastHttp_WriteEnd(p) ==
  /\ bc[p] = "h_writing"
  /\ LET c == cur[p]
         ok == Alive(c)
     IN /\ received' = IF ok THEN [received EXCEPT ![c] = Append(@, msg[p])]
                             ELSE received
        /\ rmPending' = IF ok THEN rmPending
                              ELSE [rmPending EXCEPT ![c] = @ + 1]
        /\ okw' = IF ok THEN [okw EXCEPT ![p] = @ \cup {c}] ELSE okw
  /\ \E r \in RUnlockResults(msg[p]) :
       /\ muR' = r.readers
       /\ IF r.fatal
            THEN /\ bc' = [bc EXCEPT ![p] = "fatal"]
                 /\ UNCHANGED logPosts
            ELSE /\ bc' = [bc EXCEPT ![p] = "h_range"]
                 /\ logPosts' = [logPosts EXCEPT ![msg[p]].spawned = @ + 1]
  /\ cur' = [cur EXCEPT ![p] = NoConn]
  /\ UNCHANGED <<rmDone, clients, muW, transport, closeCount, ws, stream,
                 msg, snapshot, todo, nextSeq, att,
                 fwdInFlight, fwdPublished, fwdFailed, skipped, origin, routerVars, consumerVars, missionVars>>

\* The range is over: every key that was in the map when it began and still is
\* has been yielded (a key stored meanwhile may be left out). broadcast returns
\* without another RUnlock() and telemetryHandler answers 200.
broadcastHttp_Return(p) ==
  /\ bc[p] = "h_range"
  /\ \A c \in snapshot[p] \cap clients : att[p][c] > 0
  /\ bc' = [bc EXCEPT ![p] = "idle"]
  /\ msg' = [msg EXCEPT ![p] = 0]
  /\ snapshot' = [snapshot EXCEPT ![p] = {}]
  /\ att' = [att EXCEPT ![p] = NoAttempts]
  /\ okw' = [okw EXCEPT ![p] = {}]
  /\ UNCHANGED <<rmDone, clients, muW, muR, transport, closeCount, ws, rmPending, stream,
                 todo, cur, nextSeq, received,
                 fwdInFlight, fwdPublished, fwdFailed, skipped, logPosts, origin, routerVars, consumerVars, missionVars>>

\* The range goes on while addClient or removeClient is inside its critical
\* section (the call's read lock is gone): the runtime may end the process
\* ("fatal error: concurrent map iteration and map write").
broadcastHttp_MapRace(p) ==
  /\ bc[p] = "h_range"
  /\ muW # Free
  /\ bc' = [bc EXCEPT ![p] = "fatal"]
  /\ UNCHANGED <<rmDone, clients, muW, muR, transport, closeCount, ws, rmPending, stream,
                 msg, snapshot, todo, cur, nextSeq, received, att, okw,
                 fwdInFlight, fwdPublished, fwdFailed, skipped, logPosts, origin, routerVars, consumerVars, missionVars>>

\* A forwarding goroutine: httpClient.Do returns an error, or a response whose
\* status is 201 or not; whatever it is, it is only logged.
forwardHttp_Do(s) ==
  /\ logPosts[s].finished < logPosts[s].spawned
  /\ logPosts' = [logPosts EXCEPT ![s].finished = @ + 1]
  /\ \E created \in BOOLEAN :
       IF created THEN /\ fwdPublished' = fwdPublished \cup {s}
                       /\ UNCHANGED fwdFailed
                  ELSE /\ fwdFailed' = fwdFailed \cup {s}
                       /\ UNCHANGED fwdPublished
  /\ UNCHANGED <<rmDone, clients, muW, muR, transport, closeCount, ws, rmPending, stream,
                 bc, msg, snapshot, todo, cur, nextSeq, received, att, okw,
                 fwdInFlight, skipped, origin, routerVars, consumerVars, missionVars>>

HttpNext ==
  \/ Running /\ \E c \in Conns : wsHandler_Upgrade(c)
  \/ Running /\ \E c \in Conns : wsHandler_UpgradeFail(c)
  \/ Running /\ \E c \in Conns : addClient_Lock(c)
  \/ Running /\ \E c \in Conns : addClient_Store(c)
  \/ Running /\ \E c \in Conns, k \in {"rm_ws", "rm_go"} : removeClient_Lock(k, c)
  \/ Running /\ \E c \in Conns, k \in {"rm_ws", "rm_go"} : removeClient_Body(k, c)
  \/ Running /\ \E c \in Conns : PeerClose(c)
  \/ Running /\ \E p \in Producers : telemetryHandler_Decode(p)
  \/ Running /\ \E p \in Producers : broadcastHttp_RLock(p)
  \/ Running /\ \E p \in Producers, c \in Conns : broadcastHttp_Next(p, c)
  \/ Running /\ \E p \in Producers : broadcastHttp_WriteEnd(p)
  \/ Running /\ \E p \in Producers : broadcastHttp_Return(p)
  \/ Running /\ \E p \in Producers : broadcastHttp_MapRace(p)
  \/ Running /\ \E s \in Seqs : forwardHttp_Do(s)

HttpSpec == Init /\ [][HttpNext]_vars

\* ==================================================== persistence-service
\* The telemetry service publishes a message to telemetry_exchange, which is
\* bound to persistence_queue; the body is well-formed JSON or it is not.
Publish(wf) ==
  /\ published < MaxMessages
  /\ consumer' = [consumer EXCEPT
       !.published = @ + 1,
       !.queue = Append(@, [id |-> published + 1, wellFormed |-> wf])]
  /\ UNCHANGED <<hubVars, routerVars, missionVars>>

\* for d := range msgs: the next delivery is taken; with auto-ack the broker has
\* dropped it from the queue on delivery.
consumer_Range ==
  /\ consumerPc = "range"
  /\ queue # <<>>
  /\ consumer' = [consumer EXCEPT
       !.delivery = Head(queue), !.queue = Tail(queue), !.pc = "unmarshal"]
  /\ UNCHANGED <<hubVars, routerVars, missionVars>>

\* json.Unmarshal(d.Body, &telemetry): an error is logged and handleTelemetryLog
\* returns; the loop goes to the next delivery.
handleTelemetryLog_Unmarshal ==
  /\ consumerPc = "unmarshal"
  /\ consumer' =
       IF delivery.wellFormed
         THEN [consumer EXCEPT !.pc = "exec"]
         ELSE [consumer EXCEPT
                 !.handledLog = Append(@, [id |-> delivery.id, did |-> "bad_json"]),
                 !.delivery = NoDelivery, !.pc = "range"]
  /\ UNCHANGED <<hubVars, routerVars, missionVars>>

\* Variant: a delivery whose insert failed is put back on the queue
\* (d.Nack(false, true)).
handleTelemetryLog_Exec_Requeue ==
  /\ consumerPc = "exec"
  /\ \E err \in BOOLEAN :
       consumer' =
         IF err
           THEN [consumer EXCEPT
                   !.handledLog = Append(@, [id |-> delivery.id, did |-> "insert_err"]),
                   !.queue = Append(@, delivery),
                   !.delivery = NoDelivery, !.pc = "range"]
           ELSE [consumer EXCEPT
                   !.telemetryTbl = Append(@, delivery.id),
                   !.handledLog = Append(@, [id |-> delivery.id, did |-> "inserted"]),
                   !.delivery = NoDelivery, !.pc = "range"]
  /\ UNCHANGED <<hubVars, routerVars, missionVars>>

\* dbpool.Exec(ctx, insertSQL, ...): the row is inserted, or the error is logged;
\* handleTelemetryLog returns either way and the loop goes to the next delivery.
handleTelemetryLog_Exec ==
  /\ consumerPc = "exec"
  /\ \E err \in BOOLEAN :
       consumer' =
         IF err
           THEN [consumer EXCEPT
                   !.handledLog = Append(@, [id |-> delivery.id, did |-> "insert_err"]),
                   !.delivery = NoDelivery, !.pc = "range"]
           ELSE [consumer EXCEPT
                   !.telemetryTbl = Append(@, delivery.id),
                   !.handledLog = Append(@, [id |-> delivery.id, did |-> "inserted"]),
                   !.delivery = NoDelivery, !.pc = "range"]
  /\ UNCHANGED <<hubVars, routerVars, missionVars>>

ConsumerNext ==
  \/ \E wf \in BOOLEAN : Publish(wf)
  \/ consumer_Range
  \/ handleTelemetryLog_Unmarshal
  \/ handleTelemetryLog_Exec

ConsumerSpec == Init /\ [][ConsumerNext]_vars

\* ================================================ command-service, missions
\* tx.Rollback(ctx), deferred: what the transaction wrote is discarded; after a
\* Commit it does nothing.
Rollback(q) == [q EXCEPT !.tx = NoTx]

\* The handler of request r answers with an error status; the deferred Rollback
\* has run when it returns.
Fail(r, st) ==
  [mission EXCEPT !.req[r] = Rollback([@ EXCEPT !.pc = "done", !.status = st])]

\* The row request r writes for its waypoint number i (counted from 0, as
\* `for i, waypoint := range mission.Waypoints` does).
WaypointRow(r, i) ==
  [mission_id |-> mreq[r].mid, sequence_id |-> i, waypoint |-> mreq[r].wps[i + 1]]

\* json.NewDecoder(r.Body).Decode(&mission): an error answers 400.
handleCreateMission_Decode(r) ==
  /\ mreq[r].pc = "new"
  /\ \/ mission' = Fail(r, StatusBadRequest)
     \/ \E w \in WaypointLists :
          mission' = [mission EXCEPT
            !.req[r] = [@ EXCEPT !.pc = "begin", !.name = r, !.wps = w]]
  /\ UNCHANGED <<hubVars, routerVars, consumerVars>>

\* tx, err := dbpool.Begin(ctx): an error answers 500.
handleCreateMission_Begin(r) ==
  /\ mreq[r].pc = "begin"
  /\ \E err \in BOOLEAN :
       mission' =
         IF err THEN Fail(r, StatusInternalServerError)
                ELSE [mission EXCEPT
                        !.req[r] = [@ EXCEPT !.pc = "mission", !.tx.open = TRUE]]
  /\ UNCHANGED <<hubVars, routerVars, consumerVars>>

\* INSERT INTO missions (name) VALUES ($1) RETURNING id, in the transaction.
\* The SERIAL sequence hands out its value whether the row stays or not; an
\* error answers 500 and the deferred Rollback runs.
handleCreateMission_InsertMission(r) ==
  /\ mreq[r].pc = "mission"
  /\ \E err \in BOOLEAN :
       mission' =
         IF err THEN Fail(r, StatusInternalServerError)
                ELSE [mission EXCEPT
                        !.seq = @ + 1,
                        !.req[r] = [@ EXCEPT
                          !.pc = "waypoints", !.mid = missionSeq, !.i = 0,
                          !.tx.missions = @ \cup {[id |-> missionSeq,
                                                   name |-> mreq[r].name]}]]
  /\ UNCHANGED <<hubVars, routerVars, consumerVars>>

\* Variant: the waypoint is inserted through dbpool, outside the transaction,
\* and is there at once.
handleCreateMission_InsertWaypoint_Pool(r) ==
  /\ mreq[r].pc = "waypoints"
  /\ mreq[r].i < Len(mreq[r].wps)
  /\ \E err \in BOOLEAN :
       mission' =
         IF err THEN Fail(r, StatusInternalServerError)
                ELSE [mission EXCEPT
                        !.req[r].i = @ + 1,
                        !.waypointsTbl = @ \cup {WaypointRow(r, mreq[r].i)}]
  /\ UNCHANGED <<hubVars, routerVars, consumerVars>>

\* for i, waypoint := range mission.Waypoints: INSERT INTO waypoints (mission_id,
\* ..., sequence_id) VALUES (missionID, ..., i), in the transaction; an error
\* answers 500 and the deferred Rollback runs.
handleCreateMission_InsertWaypoint(r) ==
  /\ mreq[r].pc = "waypoints"
  /\ mreq[r].i < Len(mreq[r].wps)
  /\ \E err \in BOOLEAN :
       mission' =
         IF err THEN Fail(r, StatusInternalServerError)
                ELSE [mission EXCEPT
                        !.req[r] = [@ EXCEPT
                          !.i = @ + 1,
                          !.tx.waypoints = @ \cup {WaypointRow(r, mreq[r].i)}]]
  /\ UNCHANGED <<hubVars, routerVars, consumerVars>>

\* tx.Commit(ctx): the rows of the transaction are in the tables together and
\* the answer is 201 with the mission; or Commit returns an error, nothing was
\* written, the answer is 500 and the deferred Rollback runs.
handleCreateMission_Commit(r) ==
  /\ mreq[r].pc = "waypoints"
  /\ mreq[r].i = Len(mreq[r].wps)
  /\ \E err \in BOOLEAN :
       mission' =
         IF err THEN Fail(r, StatusInternalServerError)
                ELSE [mission EXCEPT
                        !.missionsTbl = @ \cup mreq[r].tx.missions,
                        !.waypointsTbl = @ \cup mreq[r].tx.waypoints,
                        !.req[r] = [@ EXCEPT !.pc = "done", !.status = StatusCreated,
                                             !.tx = NoTx]]
  /\ UNCHANGED <<hubVars, routerVars, consumerVars>>

MissionNext ==
  \/ \E r \in MissionReqs : handleCreateMission_Decode(r)
  \/ \E r \in MissionReqs : handleCreateMission_Begin(r)
  \/ \E r \in MissionReqs : handleCreateMission_InsertMission(r)
  \/ \E r \in MissionReqs : handleCreateMission_InsertWaypoint(r)
  \/ \E r \in MissionReqs : handleCreateMission_Commit(r)

MissionSpec == Init /\ [][MissionNext]_vars

\* ===================================================================== claims
\* The loop of the broadcast call of producer p is over (it is about to return).
LoopDone(p) == bc[p] = "loop" /\ todo[p] = {}
InCall(p) == bc[p] \in {"loop", "writing"}

\* C1: in one broadcast call every subscriber of the call's snapshot gets exactly
\* one WriteMessage, and the payload reaches it exactly once when that write
\* succeeds (and not at all when it fails): never zero times, never twice.
C1_SnapshotDeliveredOnce ==
  \A p \in Producers :
    InCall(p) =>
      \A c \in snapshot[p] :
        /\ att[p][c] <= 1
        /\ Count(received[c], msg[p]) = (IF c \in okw[p] THEN 1 ELSE 0)
        /\ LoopDone(p) => att[p][c] = 1

\* A call over a snapshot of all NumConns subscribers has written to every one.
C1_Witness ==
  \E p \in Producers :
    /\ LoopDone(p)
    /\ snapshot[p] = Conns
    /\ okw[p] = Conns
    /\ \A c \in Conns : Count(received[c], msg[p]) = 1

\* C2: when the write to subscriber a fails in a broadcast call, every other
\* member of the same snapshot is still written to in that call; a is eventually
\* out of the registry; and each removal of a member takes exactly that one
\* member out, once, however many removals were triggered for it.
C2_FailureContained ==
  /\ [](\A p \in Producers :
          LoopDone(p) => \A b \in snapshot[p] : att[p][b] = 1)
  /\ \A a \in Conns : (rmPending[a] > 0) ~> (a \notin clients)
  /\ [](\A a \in Conns : closeCount[a] <= 1 /\ (a \in clients => closeCount[a] = 0))
  /\ [][\A a \in Conns :
          (a \in clients /\ a \notin clients')
          => (clients' = clients \ {a} /\ closeCount'[a] = 1)]_vars

\* A call whose write to a failed has delivered to b, and the removal spawned for
\* a (not a's read loop) has taken a out of the registry.
C2_Witness ==
  \E p \in Producers, a, b \in Conns :
    /\ LoopDone(p)
    /\ a # b /\ {a, b} \subseteq snapshot[p]
    /\ a \notin okw[p] /\ b \in okw[p]
    /\ a \notin clients /\ b \in clients
    /\ ws[a] = "read" /\ rmDone[a] = 1 /\ closeCount[a] = 1

\* C3: a subscriber receives broadcasts in the order the calls were invoked
\* (msg numbers the calls in invocation order), whatever the interleaving of
\* concurrent calls.
C3_DeliveredInCallOrder ==
  \A c \in Conns :
    \A i, j \in 1..Len(received[c]) : i < j => received[c][i] < received[c][j]

\* C4: no two broadcast calls are inside WriteMessage on the same connection at
\* the same time.
C4_WritesSerialized ==
  \A p, q \in Producers :
    (p # q /\ bc[p] = "writing" /\ bc[q] = "writing") => cur[p] # cur[q]

\* C5: removeClient on a connection that is no longer in the registry changes
\* nothing (no Close, registry unchanged), so a transport is closed at most once
\* however many removals run for it.
C5_RemoveIdempotent ==
  /\ [](\A c \in Conns : closeCount[c] <= 1)
  /\ [][\A c \in Conns :
          (muW.conn = c /\ muW.kind \in {"rm_ws", "rm_go"} /\ muW' = Free
             /\ c \notin clients)
          => (clients' = clients /\ closeCount' = closeCount)]_vars

\* Two removals have run for one connection and it was closed once.
C5_Witness ==
  \E c \in Conns : rmDone[c] >= 2 /\ closeCount[c] = 1 /\ c \notin clients

\* C6: a command for an identity that no register call has ever stored gets the
\* 404 "Drone not registered" answer and makes no outbound call.
C6_UnregisteredNoCall ==
  \A h \in CmdReqs :
    (cmd[h].id # NoId /\ regHist[cmd[h].id] = <<>>) =>
      /\ netCalls[h] = <<>>
      /\ cmd[h].pc \in {"lock", "lookup", "done"}
      /\ cmd[h].pc = "done" =>
           (cmd[h].status = StatusNotFound /\ cmd[h].body = "Drone not registered")

\* A command for a never-registered identity has been answered while another
\* identity is registered.
C6_Witness ==
  \E h \in CmdReqs :
    /\ cmd[h].pc = "done"
    /\ cmd[h].id # NoId
    /\ regHist[cmd[h].id] = <<>>
    /\ cmd[h].status = StatusNotFound
    /\ DOMAIN drones # {}

\* Positions of regHist[d] that a command which arrived when regHist[d] had n
\* entries may resolve to: the newest at its arrival, or a newer one.
NotOlderThan(d, n) == {k \in 1..Len(regHist[d]) : k >= n}

\* C7: the directory holds the newest registration of each identity, and a
\* command that arrives after register(d, A), register(d, B) have completed
\* contacts B (or a still newer registration), never the older A.
C7_NewestRegistrationWins ==
  /\ DOMAIN drones = {d \in DroneIds : regHist[d] # <<>>}
  /\ \A d \in DOMAIN drones : drones[d] = regHist[d][Len(regHist[d])]
  /\ \A h \in CmdReqs :
       cmd[h].pc \in {"post", "wait"} \/ (cmd[h].pc = "done" /\ netCalls[h] # <<>>) =>
         /\ \E k \in NotOlderThan(cmd[h].id, regSeen[h]) :
              cmd[h].addr = regHist[cmd[h].id][k]
         /\ \A i \in 1..Len(netCalls[h]) : netCalls[h][i] = DroneURL(cmd[h].addr)

\* d was registered at A and then at another address B; a command that arrived
\* afterwards has contacted B only.
C7_Witness ==
  \E h \in CmdReqs :
    LET d == cmd[h].id IN
      /\ cmd[h].pc = "done"
      /\ d # NoId
      /\ Len(regHist[d]) = 2
      /\ regHist[d][1] # regHist[d][2]
      /\ regSeen[h] = 2
      /\ netCalls[h] = <<DroneURL(regHist[d][2])>>

\* What the live path reads and writes: the registry, its lock, the connections,
\* the producers' calls.
liveVars == <<clients, muW, muR, transport, closeCount, ws, rmPending, rmDone,
              stream, bc, msg, snapshot, todo, cur, nextSeq, received, att, okw,
              skipped>>

\* C8: whether a publish to the durable sink fails or succeeds makes no
\* difference to the live path: the step that ends a forwarding task, either way,
\* leaves every subscriber's received log, the registry and every broadcast call
\* as they were, and no step of a broadcast call waits on the sink.
C8_SinkFailureIsolated ==
  /\ [][(fwdFailed' # fwdFailed \/ fwdPublished' # fwdPublished)
          => UNCHANGED liveVars]_vars
  /\ [](\A p \in Producers :
          /\ bc[p] = "loop" => \A c \in todo[p] : ENABLED broadcast_WriteBegin(p, c)
          /\ bc[p] = "writing" => ENABLED broadcast_WriteEnd(p)
          /\ (bc[p] = "idle" /\ stream[p] = "open" /\ nextSeq <= MaxSamples)
               => ENABLED ReportTelemetry_Recv(p))

\* A publish has failed, and another broadcast has delivered to every member of
\* a non-empty snapshot.
C8_Witness ==
  \E p \in Producers :
    /\ fwdFailed # {}
    /\ LoopDone(p)
    /\ snapshot[p] # {}
    /\ okw[p] = snapshot[p]

\* C9: broadcast returns when it has dispatched the forwarding task, not when the
\* publish is done (no call is still on a message that has a forwarding task, and
\* a finished loop can always return), and a publish error reaches no producer:
\* the step that logs it changes no stream and no call.
C9_ForwardingFireAndForget ==
  /\ [](\A p \in Producers :
          /\ msg[p] \notin (fwdInFlight \cup fwdPublished \cup fwdFailed)
          /\ LoopDone(p) => ENABLED broadcast_Forward(p))
  /\ [][fwdFailed' # fwdFailed => UNCHANGED <<stream, bc, msg>>]_vars

\* Every broadcast has returned while the publish of message 2 is still in
\* flight; the publish of message 1 has failed and every stream is still open.
C9_Witness ==
  /\ 1 \in fwdFailed
  /\ 2 \in fwdInFlight
  /\ \A p \in Producers : bc[p] = "idle" /\ stream[p] = "open"

\* A fixed pool size smaller than the burst of MaxSamples broadcasts.
ForwardLimit == MaxSamples - 1

\* C10: the forwarding tasks in flight never exceed a fixed limit, whatever the
\* number of broadcasts in the burst.
C10_ForwardingBounded == Cardinality(fwdInFlight) <= ForwardLimit

\* C11: while the write of a broadcast call to one subscriber has not returned,
\* the same call can go on to every other subscriber of its snapshot that it has
\* not written to yet.
C11_StalledWriteDoesNotBlock ==
  \A p \in Producers :
    bc[p] = "writing" =>
      \A b \in todo[p] \ {cur[p]} : ENABLED broadcast_WriteBegin(p, b)

\* C12: no network operation runs under a lock: a broadcast call is not inside
\* WriteMessage while it holds the read lock of Hub.mu, no connection is closed
\* by a step taken with Hub.mu held, and a command handler does not hold
\* registry.mu while its Post is out.
C12_NoLockAcrossNetwork ==
  /\ [](\A p \in Producers : bc[p] = "writing" => p \notin muR)
  /\ [][\A c \in Conns : closeCount'[c] # closeCount[c] => muW = Free]_vars
  /\ [](\A h \in CmdReqs :
          cmd[h].pc \in {"post", "wait"} => regMu # Owner("cmd", h))

\* C13: a connection that was pruned (closed and taken out of the registry) is
\* never a member again, no snapshot taken afterwards holds it, and a call only
\* writes to members of its own snapshot.
C13_RemovedIsTerminal ==
  /\ [](\A c \in Conns : closeCount[c] > 0 => c \notin clients)
  /\ [][\A c \in Conns :
          (closeCount[c] > 0 /\ c \notin clients) => c \notin clients']_vars
  /\ [][\A p \in Producers :
          snapshot'[p] # snapshot[p] =>
            \A c \in snapshot'[p] : closeCount[c] = 0]_vars
  /\ [](\A p \in Producers :
          /\ bc[p] = "writing" => cur[p] \in snapshot[p]
          /\ \A c \in Conns : att[p][c] > 0 => c \in snapshot[p])

\* c got message 1 and was then pruned; the call for message 2 took a snapshot
\* without c and has delivered to the member that is left.
C13_Witness ==
  \E p \in Producers, c, b \in Conns :
    /\ closeCount[c] = 1 /\ c \notin clients /\ rmDone[c] >= 1
    /\ received[c] = <<1>>
    /\ msg[p] = 2 /\ LoopDone(p)
    /\ snapshot[p] = {b} /\ b # c /\ okw[p] = {b}
    /\ received[b] = <<1, 2>>

\* C14: a registered subscriber whose transport is closed is eventually out of
\* the registry (its read loop sees the close, or a write to it fails), when the
\* removal is scheduled fairly.
C14_ClosedEventuallyRemoved ==
  \A c \in Conns : (c \in clients /\ ~Alive(c)) ~> (c \notin clients)

\* The peer of c closed the transport and c's read loop, not a failed write,
\* has taken c out of the registry.
C14_Witness ==
  \E c \in Conns :
    /\ transport[c] = "dead"
    /\ ws[c] = "exit"
    /\ c \notin clients
    /\ closeCount[c] = 1
    /\ rmDone[c] = 1 /\ rmPending[c] = 0

\* The class of an HTTP status: 4 for client errors, 5 for server errors.
StatusClass(st) == st \div 100

\* C15: a command whose Post failed (error or timeout) for a registered drone
\* is answered with a server-error status that is not the answer an unknown
\* drone gets, and the unknown-drone answer is a client error given without any
\* Post.
C15_GatewayFailureDistinct ==
  \A h \in CmdReqs :
    cmd[h].pc = "done" =>
      /\ cmd[h].remote \in PostErrors =>
           /\ StatusClass(cmd[h].status) = 5
           /\ cmd[h].status # StatusNotFound
           /\ cmd[h].body # "Drone not registered"
           /\ cmd[h].id \in DOMAIN drones
      /\ cmd[h].status = StatusNotFound =>
           /\ StatusClass(cmd[h].status) = 4
           /\ cmd[h].remote = "none"
           /\ netCalls[h] = <<>>

\* One command for a registered drone timed out and was answered 500; another,
\* for an unknown drone, was answered 404.
C15_Witness ==
  \E h, g \in CmdReqs :
    /\ cmd[h].pc = "done" /\ cmd[h].remote = "timeout"
    /\ cmd[h].status = StatusInternalServerError
    /\ cmd[g].pc = "done" /\ cmd[g].status = StatusNotFound

\* C16: the answer to a command for a registered drone is given after the Post
\* has returned and carries the drone's outcome: success is answered only when
\* the drone answered success, and a failed Post is answered as a gateway failure.
C16_RemoteOutcomeReturned ==
  \A h \in CmdReqs :
    (cmd[h].pc = "done" /\ netCalls[h] # <<>>) =>
      /\ cmd[h].remote # "none"
      /\ cmd[h].remote = "resp" => cmd[h].status = cmd[h].rstatus
      /\ cmd[h].remote \in PostErrors => cmd[h].status = StatusInternalServerError

\* C17: a command makes at most one Post, also when that Post failed.
C17_NoRetry ==
  \A h \in CmdReqs :
    /\ Len(netCalls[h]) <= 1
    /\ (cmd[h].pc = "done" /\ cmd[h].remote # "none") => Len(netCalls[h]) = 1

\* A command whose only Post failed has been answered.
C17_Witness ==
  \E h \in CmdReqs :
    /\ cmd[h].pc = "done"
    /\ cmd[h].remote = "error"
    /\ Len(netCalls[h]) = 1

\* C18: no step of a command handler changes registry.drones, whatever its
\* outcome; the map changes only in the store step of a register handler.
C18_RouteLeavesDirectory ==
  /\ [][(cmd' # cmd \/ netCalls' # netCalls) => drones' = drones]_vars
  /\ [][drones' # drones =>
          \E r \in RegReqs : reg[r].pc = "store" /\ reg'[r].pc = "done"]_vars

\* A command that ended in a gateway failure and one that ended in NotRegistered
\* have been answered, and the drone of the first is still registered at the
\* address that was contacted.
C18_Witness ==
  \E h, g \in CmdReqs :
    /\ cmd[h].pc = "done" /\ cmd[h].status = StatusInternalServerError
    /\ cmd[h].id \in DOMAIN drones /\ drones[cmd[h].id] = cmd[h].addr
    /\ cmd[g].pc = "done" /\ cmd[g].status = StatusNotFound

\* C19: a broadcast touches the registry only through the removals it spawns
\* for failed writes: no step of a call changes h.clients, a removal is spawned
\* only by a write that returned an error, a member is added only by addClient,
\* and a removal takes out only the connection it was called for.
C19_BroadcastOnlyPrunes ==
  /\ [][(bc' # bc) => clients' = clients]_vars
  /\ [][\A c \in Conns :
          rmPending'[c] > rmPending[c] =>
            \E p \in Producers :
              /\ bc[p] = "writing" /\ cur[p] = c
              /\ c \notin okw'[p]
              /\ received'[c] = received[c]]_vars
  /\ [][\A c \in Conns :
          (c \in clients' /\ c \notin clients) => muW = Holder("add", c)]_vars
  /\ [][\A c \in Conns :
          (c \in clients /\ c \notin clients') =>
            (muW.conn = c /\ muW.kind \in {"rm_ws", "rm_go"})]_vars

\* A call has written with success to every member of a snapshot of all the
\* connections; the registry still holds them all and no removal was spawned.
C19_Witness ==
  \E p \in Producers :
    /\ LoopDone(p)
    /\ snapshot[p] = Conns /\ okw[p] = Conns
    /\ clients = Conns
    /\ \A c \in Conns : rmPending[c] = 0 /\ rmDone[c] = 0 /\ closeCount[c] = 0

\* C20: within one broadcast call a member is written to at most once, and a
\* member whose write has returned, with an error or not, is not in the loop
\* any more.
C20_FailedWriteNotRetried ==
  \A p \in Producers, c \in Conns :
    /\ att[p][c] <= 1
    /\ (att[p][c] >= 1 /\ ~(bc[p] = "writing" /\ cur[p] = c)) => c \notin todo[p]

\* A call is over whose one write to c failed.
C20_Witness ==
  \E p \in Producers, c \in Conns :
    /\ LoopDone(p)
    /\ c \in snapshot[p] /\ c \notin okw[p]
    /\ att[p][c] = 1
    /\ received[c] = <<>>

\* C21: a failed write in a broadcast call never reaches the producer: a stream
\* ends only on what Recv returns between two calls, a call whose loop is over
\* returns whatever its writes did and leaves the stream open, and the stream
\* then takes its next sample.
C21_WriteErrorNotSurfaced ==
  /\ [][\A p \in Producers :
          stream'[p] # stream[p] => (bc[p] = "idle" /\ bc'[p] = "idle")]_vars
  /\ [][\A p \in Producers :
          (LoopDone(p) /\ bc'[p] = "idle") => stream'[p] = "open"]_vars
  /\ [](\A p \in Producers :
          /\ LoopDone(p) => ENABLED broadcast_Forward(p)
          /\ (bc[p] = "idle" /\ stream[p] = "open" /\ nextSeq <= MaxSamples)
               => ENABLED ReportTelemetry_Recv(p))

\* The one sample received so far was broadcast and a write of that call failed;
\* the call has returned, every stream is open and waits for its next sample.
C21_Witness ==
  /\ nextSeq = 2
  /\ \A p \in Producers : bc[p] = "idle" /\ stream[p] = "open" /\ skipped[p] = 0
  /\ \E c \in Conns : rmPending[c] > 0

\* C22: a sample that cannot be marshalled is dropped alone: the step that drops
\* it leaves the stream open and touches nothing else, and the stream goes on to
\* receive and broadcast its next samples.
C22_MalformedSampleSkipped ==
  /\ [][\A p \in Producers :
          skipped'[p] # skipped[p] =>
            /\ stream'[p] = "open" /\ bc'[p] = "idle"
            /\ UNCHANGED <<clients, received, rmPending, transport, closeCount,
                           fwdInFlight, fwdPublished, fwdFailed>>]_vars
  /\ [](\A p \in Producers :
          (skipped[p] > 0 /\ bc[p] = "idle" /\ stream[p] = "open"
             /\ nextSeq <= MaxSamples) => ENABLED ReportTelemetry_Recv(p))

\* Producer p dropped sample 1 and has then delivered sample 2 to every member of
\* a non-empty snapshot.
C22_Witness ==
  \E p \in Producers :
    /\ skipped[p] = 1
    /\ msg[p] = 2 /\ LoopDone(p)
    /\ snapshot[p] # {} /\ okw[p] = snapshot[p]
    /\ \A c \in snapshot[p] : received[c] = <<2>>

\* The samples that have been handed to the forwarding goroutine.
Handed == fwdInFlight \cup fwdPublished \cup fwdFailed

\* C23: the hand-over of a sample to the durable sink does not wait for the live
\* deliveries: while a write of the call has not returned, the sample has been
\* handed over or the call can hand it over now.
C23_RelayDecoupledFromFanout ==
  \A p \in Producers :
    bc[p] = "writing" => (msg[p] \in Handed \/ ENABLED broadcast_Forward(p))

\* C24: every subscriber written to in a call gets the message of that call, the
\* message does not change during the call, and what is handed to the sink when
\* the call returns is that same message.
C24_SamePayloadEverywhere ==
  /\ [][\A c \in Conns :
          received'[c] # received[c] =>
            \E p \in Producers :
              /\ bc[p] = "writing" /\ cur[p] = c
              /\ received'[c] = Append(received[c], msg[p])]_vars
  /\ [][\A p \in Producers : (InCall(p) /\ InCall(p)') => msg'[p] = msg[p]]_vars
  /\ [][\A s \in Seqs :
          (s \in fwdInFlight' /\ s \notin fwdInFlight) =>
            \E p \in Producers : LoopDone(p) /\ msg[p] = s /\ bc'[p] = "idle"]_vars
  /\ [][\A p \in Producers :
          (LoopDone(p) /\ bc'[p] = "idle") => msg[p] \in fwdInFlight']_vars

\* Message 1 has reached every connection and is with the forwarding goroutine.
C24_Witness ==
  /\ 1 \in fwdInFlight
  /\ \A c \in Conns : received[c] = <<1>>

\* C26: the snapshot of a call is the registry at the instant it is taken and
\* does not change during the call; the call writes only to its members, so a
\* connection added later gets nothing from that call.
C26_LateSubscriberSkipped ==
  /\ [][\A p \in Producers :
          (bc[p] = "snap" /\ bc'[p] = "loop") =>
            (snapshot'[p] = clients /\ todo'[p] = clients)]_vars
  /\ [][\A p \in Producers :
          (InCall(p) /\ InCall(p)') => snapshot'[p] = snapshot[p]]_vars
  /\ [](\A p \in Producers :
          InCall(p) =>
            /\ todo[p] \subseteq snapshot[p]
            /\ bc[p] = "writing" => cur[p] \in snapshot[p]
            /\ \A c \in Conns \ snapshot[p] :
                 att[p][c] = 0 /\ Count(received[c], msg[p]) = 0)

\* c was added after the call took its snapshot {b}: the call is over, b has the
\* message and c, a live member now, has nothing.
C26_Witness ==
  \E p \in Producers, b, c \in Conns :
    /\ LoopDone(p)
    /\ snapshot[p] = {b} /\ okw[p] = {b} /\ b # c
    /\ c \in clients /\ Alive(c)
    /\ received[c] = <<>>

\* C25: a command for a drone registered at A is posted once, to A + "/command",
\* with a body of exactly the two fields command and payload, the command as it
\* came and the payload, when the request carried one, byte for byte; when the
\* Post comes back with a response the caller gets 200 "Command sent to drone".
C25_CommandProxiedVerbatim ==
  \A h \in CmdReqs :
    cmd[h].pc \in {"wait", "done"} /\ netCalls[h] # <<>> =>
      /\ netCalls[h] = <<DroneURL(cmd[h].addr)>>
      /\ \E k \in 1..Len(regHist[cmd[h].id]) : regHist[cmd[h].id][k] = cmd[h].addr
      /\ DOMAIN cmd[h].sent = {"command", "payload"}
      /\ cmd[h].sent.command = cmd[h].command
      /\ cmd[h].payload # NoPayload => cmd[h].sent.payload = cmd[h].payload
      /\ (cmd[h].pc = "done" /\ cmd[h].remote = "resp") =>
           (cmd[h].status = StatusOK /\ cmd[h].body = "Command sent to drone")

\* PING with payload {} for a registered drone was posted as {PING, {}} to the
\* registered address and the caller was told "Command sent to drone".
C25_Witness ==
  \E h \in CmdReqs :
    /\ cmd[h].pc = "done" /\ cmd[h].status = StatusOK
    /\ cmd[h].command = "PING" /\ cmd[h].payload = "{}"
    /\ cmd[h].sent = [command |-> "PING", payload |-> "{}"]
    /\ netCalls[h] = <<DroneURL(drones[cmd[h].id])>>
    /\ cmd[h].body = "Command sent to drone"

\* C27: no entry ever leaves registry.drones: a drone that has been registered
\* resolves in every later state, also after a command to it has failed.
C27_EntriesNeverRemoved ==
  /\ [][\A d \in DOMAIN drones : d \in DOMAIN drones']_vars
  /\ [](\A d \in DroneIds : regHist[d] # <<>> => Lookup(drones, d).ok)

\* A command to a drone ended in a gateway failure, and a second command for the
\* same drone is at its lookup and resolves.
C27_Witness ==
  \E h, g \in CmdReqs :
    /\ cmd[h].pc = "done" /\ cmd[h].status = StatusInternalServerError
    /\ cmd[g].pc = "lookup" /\ cmd[g].id = cmd[h].id
    /\ Lookup(drones, cmd[g].id).ok

\* C28: a broadcast call starts at most one forwarding attempt for its sample,
\* however many subscribers it wrote to.
C28_AtMostOnePublish ==
  \A s \in Seqs : logPosts[s].spawned <= 1

\* C29: a call releases the read lock only while its own RLock() is in force,
\* the process is never ended by an RUnlock() of the unlocked mutex, and no call
\* that has returned has left its read lock held.
C29_ReadLockBalanced ==
  /\ [](\A s \in muR : \E p \in Producers : msg[p] = s)
  /\ [](\A p \in Producers : bc[p] # "fatal")
  /\ [][\A p \in Producers :
          (bc[p] = "h_writing" /\ bc'[p] # "h_writing") => msg[p] \in muR]_vars

\* No addClient, removeClient or broadcast call is in progress or due: nobody
\* holds or waits for Hub.mu.
Quiet ==
  /\ muW = Free /\ muR = {}
  /\ \A p \in Producers : bc[p] = "idle"
  /\ \A c \in Conns :
       /\ ws[c] \notin {"add", "adding", "removing"}
       /\ ~(ws[c] = "read" /\ ~Alive(c))
       /\ rmPending[c] = 0

\* C30: when every subscriber write returns, every addClient, removeClient and
\* broadcast call returns: the finitely many calls of a run all come to an end,
\* whatever their interleaving, and none is left waiting for the registry lock.
C30_NoDeadlockOnRegistryLock == <>[]Quiet

\* All the samples were broadcast, every connection was added, written to and
\* removed again, by more removals than there are connections, and all is quiet.
C30_Witness ==
  /\ Quiet
  /\ nextSeq > MaxSamples
  /\ \A c \in Conns : ws[c] = "exit" /\ closeCount[c] = 1 /\ received[c] # <<>>
  /\ \E c \in Conns : rmDone[c] >= 2

\* hub.addClient(conn) has returned for c (its wsHandler is in the read loop or
\* past it).
Added(c) ==
  \/ ws[c] \in {"read", "removing"}
  \/ ws[c] = "exit" /\ transport[c] # "none"

\* C31: a connection that was added to the registry and is no longer a member
\* has been closed by removeClient exactly once, and no member of the registry
\* has been closed by removeClient.
C31_ClosedIffRemoved ==
  \A c \in Conns :
    /\ (Added(c) /\ c \notin clients) => closeCount[c] = 1
    /\ c \in clients => (Added(c) /\ closeCount[c] = 0)

\* c was added, removed and closed once and its handler has returned; b, whose
\* peer is gone as well, is still a member and has not been closed.
C31_Witness ==
  \E c, b \in Conns :
    /\ c # b
    /\ ws[c] = "exit" /\ c \notin clients /\ closeCount[c] = 1
    /\ b \in clients /\ transport[b] = "dead" /\ closeCount[b] = 0

\* C32: a connection removed from the registry after a broadcast call copied it
\* and before the call reaches it is still written to by that call; the write
\* fails (the peer gets nothing), one removeClient is spawned for it, and that
\* removal, like the failed write, leaves the registry and the close count as
\* they are.
C32_StaleSnapshotMemberWritten ==
  /\ [](\A p \in Producers, c \in Conns :
          (bc[p] = "loop" /\ c \in todo[p] /\ c \notin clients)
            => ENABLED broadcast_WriteBegin(p, c))
  /\ [][\A p \in Producers, c \in Conns :
          (c \in todo[p] /\ c \notin todo'[p] /\ closeCount[c] > 0) =>
            /\ bc[p] = "writing" /\ cur[p] = c /\ att[p][c] = 1
            /\ received'[c] = received[c]
            /\ rmPending'[c] = rmPending[c] + 1
            /\ clients' = clients /\ closeCount' = closeCount]_vars
  /\ [][\A c \in Conns :
          (muW = Holder("rm_go", c) /\ muW' = Free /\ closeCount[c] > 0)
            => (clients' = clients /\ closeCount' = closeCount)]_vars

\* c was in the copy of p's call; its read loop has removed and closed it since;
\* the write of the call to c has failed and the removal spawned for it has run,
\* with the other member b still registered and c closed once.
C32_Witness ==
  \E p \in Producers, c, b \in Conns :
    /\ c # b
    /\ LoopDone(p) /\ snapshot[p] = {c, b}
    /\ att[p][c] = 1 /\ c \notin okw[p]
    /\ ws[c] = "exit" /\ rmDone[c] = 2 /\ rmPending[c] = 0
    /\ closeCount[c] = 1
    /\ clients = {b}

\* The broadcast call for sample s has begun and has not returned.
InBroadcast(s) == \E q \in Producers : msg[q] = s

\* C33: the samples of one producer stream are broadcast one at a time, in the
\* order they arrived (no call for a sample begins while the call for an earlier
\* sample of the same stream is still running), so a subscriber receives the
\* samples of one stream in the order the stream sent them.
C33_StreamBroadcastInOrder ==
  /\ [](\A s, t \in Seqs :
          (s < t /\ origin[s] # 0 /\ origin[s] = origin[t])
            => ~(InBroadcast(s) /\ InBroadcast(t)))
  /\ [][\A t \in Seqs :
          (~InBroadcast(t) /\ InBroadcast(t)') =>
            \A s \in Seqs :
              (s < t /\ origin'[s] = origin'[t]) => ~InBroadcast(s)]_vars
  /\ [](\A c \in Conns :
          \A i, j \in 1..Len(received[c]) :
            (i < j /\ origin[received[c][i]] = origin[received[c][j]])
              => received[c][i] < received[c][j])

\* One stream sent both samples, the other stream's sample could not be
\* marshalled in between or it sent none, and a subscriber that is still
\* connected has received sample 1, then sample 2.
C33_Witness ==
  \E p \in Producers, c \in Conns :
    /\ origin[1] = p /\ origin[2] = p
    /\ received[c] = <<1, 2>>
    /\ c \in clients /\ Alive(c)

\* C34: a command contacts the address the directory held for its target at the
\* moment of its lookup: the lookup reads registry.drones[id] as it is then, no
\* later register changes the address of a command past its lookup, the one
\* outbound call goes to that address, and the address is one that was
\* registered for that very identity.
C34_RouteUsesLookupAddress ==
  /\ [][\A h \in CmdReqs :
          (cmd[h].pc = "lookup" /\ cmd'[h].pc = "post")
            => (cmd[h].id \in DOMAIN drones /\ cmd'[h].addr = drones[cmd[h].id])]_vars
  /\ [][\A h \in CmdReqs :
          cmd[h].pc \in {"post", "wait", "done"} => cmd'[h].addr = cmd[h].addr]_vars
  /\ [](\A h \in CmdReqs :
          /\ Len(netCalls[h]) <= 1
          /\ \A i \in 1..Len(netCalls[h]) :
               /\ netCalls[h][i] = DroneURL(cmd[h].addr)
               /\ \E k \in 1..Len(regHist[cmd[h].id]) :
                    cmd[h].addr = regHist[cmd[h].id][k])

\* The target was registered at one address when the command arrived and looked
\* it up; it has been registered at another address since, which the directory
\* now holds, and the command has contacted the first one.
C34_Witness ==
  \E h \in CmdReqs :
    LET d == cmd[h].id IN
      /\ cmd[h].pc = "done"
      /\ d # NoId
      /\ regSeen[h] = 1 /\ Len(regHist[d]) = 2
      /\ regHist[d][1] # regHist[d][2]
      /\ drones[d] = regHist[d][2]
      /\ netCalls[h] = <<DroneURL(regHist[d][1])>>

\* The requests that were rejected so far, over the clients 1..n.
RECURSIVE RejectedUpTo(_)
RejectedUpTo(n) == IF n = 0 THEN 0 ELSE skipped[n] + RejectedUpTo(n - 1)

\* The requests that have left a trace: a call is running for them, a subscriber
\* has received them, or they were handed to the durable sink.
Traced ==
  {s \in Seqs : \/ \E p \in Producers : msg[p] = s
                \/ \E c \in Conns : Count(received[c], s) > 0
                \/ logPosts[s].spawned > 0
                \/ s \in fwdInFlight \cup fwdPublished \cup fwdFailed}

\* C35: a telemetry request that is rejected (wrong method, or a body that does
\* not decode) starts no broadcast and hands nothing to the durable sink: the
\* step that rejects it leaves the registry, its lock, every subscriber and
\* every call as they are, and the requests that ever leave a trace are at most
\* those that were not rejected.
C35_RejectedRequestInert ==
  /\ [][(\E p \in Producers : skipped'[p] # skipped[p]) =>
          UNCHANGED <<clients, muW, muR, transport, closeCount, ws, rmPending, rmDone,
                      bc, msg, snapshot, cur, received, att, okw,
                      fwdInFlight, fwdPublished, fwdFailed, logPosts>>]_vars
  /\ [](Cardinality(Traced) + RejectedUpTo(NumProducers) <= nextSeq - 1)

\* The first request was rejected while c was registered: c has received the
\* second request only, and nothing was forwarded for the first.
C35_Witness ==
  \E c \in Conns :
    /\ RejectedUpTo(NumProducers) = 1
    /\ received[c] = <<2>>
    /\ ws[c] = "read"
    /\ Traced = {2}

\* C36: the persistence consumer handles the queued messages one at a time, in
\* queue order, each at most once: the deliveries it has handled are the messages
\* 1, 2, ... in that order, what is still queued comes after them (a message
\* that failed is not queued again), a row is in the table for exactly the
\* messages that were inserted, and after a failure the consumer takes the next
\* delivery.
C36_ConsumerAtMostOnceInOrder ==
  /\ [](\A i \in 1..Len(handledLog) : handledLog[i].id = i)
  /\ [](LET taken == Len(handledLog) + (IF delivery = NoDelivery THEN 0 ELSE 1)
        IN /\ delivery # NoDelivery => delivery.id = taken
           /\ Len(queue) = published - taken
           /\ \A i \in 1..Len(queue) : queue[i].id = taken + i)
  /\ [](/\ \A i, j \in 1..Len(telemetryTbl) :
             i < j => telemetryTbl[i] < telemetryTbl[j]
        /\ \A m \in Messages :
             Count(telemetryTbl, m) =
               (IF \E i \in 1..Len(handledLog) :
                     handledLog[i].id = m /\ handledLog[i].did = "inserted"
                THEN 1 ELSE 0))
  /\ []((consumerPc = "range" /\ queue # <<>>) => ENABLED consumer_Range)
  /\ [][(Len(handledLog') > Len(handledLog)) =>
          (consumerPc' = "range" /\ delivery' = NoDelivery /\ queue' = queue)]_vars

\* The first message did not decode, the insert of the second failed, and the
\* third is in the table: the only row.
C36_Witness ==
  /\ Len(handledLog) = 3
  /\ handledLog[1] = [id |-> 1, did |-> "bad_json"]
  /\ handledLog[2] = [id |-> 2, did |-> "insert_err"]
  /\ handledLog[3] = [id |-> 3, did |-> "inserted"]
  /\ telemetryTbl = <<3>>
  /\ queue = <<>>

\* The waypoint rows a request writes: sequence ids 0..n-1 in request order.
WaypointRows(q) ==
  {[mission_id |-> q.mid, sequence_id |-> i - 1, waypoint |-> q.wps[i]] :
     i \in 1..Len(q.wps)}

\* C37: mission creation is all or nothing: the tables hold, for every request
\* answered 201, its mission row and all its waypoint rows with sequence ids
\* 0..n-1 in request order, and nothing else: no row of a request that is still
\* running, or that was answered with an error (a failed mission insert,
\* waypoint insert or commit).
C37_MissionAllOrNothing ==
  LET created == {r \in MissionReqs : mreq[r].pc = "done" /\ mreq[r].status = StatusCreated}
  IN /\ missionsTbl = {[id |-> mreq[r].mid, name |-> mreq[r].name] : r \in created}
     /\ waypointsTbl = UNION {WaypointRows(mreq[r]) : r \in created}
     /\ \A r \in MissionReqs :
          /\ mreq[r].pc = "done" =>
               mreq[r].status \in {StatusCreated, StatusBadRequest,
                                   StatusInternalServerError}
          /\ (mreq[r].pc = "done" /\ mreq[r].status # StatusCreated) =>
               /\ mreq[r].tx = NoTx
               /\ \A m \in missionsTbl : mreq[r].mid = 0 \/ m.id # mreq[r].mid
               /\ \A w \in waypointsTbl : mreq[r].mid = 0 \/ w.mission_id # mreq[r].mid

\* One request has created a mission of two waypoints; another, whose mission
\* row and first waypoint were inserted, was answered 500 and has left no row.
C37_Witness ==
  \E r, q \in MissionReqs :
    /\ mreq[r].pc = "done" /\ mreq[r].status = StatusCreated
    /\ Len(mreq[r].wps) = 2 /\ mreq[r].wps[1] # mreq[r].wps[2]
    /\ mreq[q].pc = "done" /\ mreq[q].status = StatusInternalServerError
    /\ mreq[q].mid # 0 /\ mreq[q].i >= 1
    /\ Cardinality(missionsTbl) = 1 /\ Cardinality(waypointsTbl) = 2

\* C38: a command request whose body does not decode is answered 400 "Invalid
\* request body" at once: the handler never takes the directory lock, holds no
\* looked-up address, makes no outbound call, and the step that answers leaves
\* the directory as it is.
C38_BadCommandBodyRejected ==
  /\ [](\A h \in CmdReqs :
          cmd[h].status = StatusBadRequest =>
            /\ cmd[h].pc = "done"
            /\ cmd[h].body = "Invalid request body"
            /\ cmd[h].id = NoId /\ cmd[h].addr = NoAddr
            /\ cmd[h].remote = "none" /\ cmd[h].sent = NoBody
            /\ netCalls[h] = <<>>
            /\ regMu # Owner("cmd", h))
  /\ [][\A h \in CmdReqs :
          (cmd[h].status # StatusBadRequest /\ cmd'[h].status = StatusBadRequest) =>
            /\ cmd[h].pc = "new"
            /\ UNCHANGED <<drones, regMu, regHist, netCalls>>]_vars

\* A drone is registered; one command for it was routed to it, and another
\* request, whose body did not decode, was answered 400 with no call made.
C38_Witness ==
  \E h, g \in CmdReqs :
    /\ cmd[h].pc = "done" /\ cmd[h].status = StatusBadRequest
    /\ netCalls[h] = <<>>
    /\ cmd[g].pc = "done" /\ cmd[g].status = StatusOK
    /\ netCalls[g] # <<>>
    /\ DOMAIN drones # {}

====
